---- MODULE Spec2Model ----
(***************************************************************************)
(* Reconciliation tools of codes/python/certificates_data_entry_tools:     *)
(* insert_programs.py, insert_schedules.py, insert_participants.py and the *)
(* snapshots of database.py.                                               *)
(*                                                                         *)
(* A Python str is a sequence of one-character strings, so that strip,     *)
(* lower, split, replace and the date parsers are computed character by    *)
(* character.  Status and action tags, which the code only assigns and     *)
(* compares, stay TLA+ strings.                                            *)
(***************************************************************************)
EXTENDS Integers, Sequences, FiniteSets, TLC

(***************************************************************************)
(* Python values that are not strings.  Every character of a str is a      *)
(* one-character string, so a sequence holding a longer string is no str.  *)
(***************************************************************************)
None == << "None" >>          \* Optional[str] without a value
NaN  == << "NaN" >>           \* a missing cell of a pandas DataFrame

(***************************************************************************)
(* str methods                                                             *)
(***************************************************************************)
UpperLetters == << "A", "B", "C", "D", "E", "F", "G", "H", "I", "J", "K", "L", "M",
                   "N", "O", "P", "Q", "R", "S", "T", "U", "V", "W", "X", "Y", "Z" >>
LowerLetters == << "a", "b", "c", "d", "e", "f", "g", "h", "i", "j", "k", "l", "m",
                   "n", "o", "p", "q", "r", "s", "t", "u", "v", "w", "x", "y", "z" >>
Digits == << "0", "1", "2", "3", "4", "5", "6", "7", "8", "9" >>

Range(f) == { f[x] : x \in DOMAIN f }

UpperSet == Range(UpperLetters)
LowerSet == Range(LowerLetters)
DigitSet == Range(Digits)

IsSpace(c) == c = " " \/ c = "\t"
IsDigit(c) == c \in DigitSet

\* the lower-case letter of each upper-case letter, and back
ToLower == [ c \in UpperSet |-> LowerLetters[CHOOSE k \in DOMAIN UpperLetters : UpperLetters[k] = c] ]
ToUpper == [ c \in LowerSet |-> UpperLetters[CHOOSE k \in DOMAIN LowerLetters : LowerLetters[k] = c] ]

LowerChar(c) == IF c \in UpperSet THEN ToLower[c] ELSE c
UpperChar(c) == IF c \in LowerSet THEN ToUpper[c] ELSE c

\* str.lower()
Lower(s) == [k \in DOMAIN s |-> LowerChar(s[k])]

\* str.capitalize(): first character upper-cased, the rest lower-cased
Capitalize(s) == [k \in DOMAIN s |-> IF k = 1 THEN UpperChar(s[k]) ELSE LowerChar(s[k])]

\* str.strip()
RECURSIVE LStrip(_)
LStrip(s) == IF s # << >> /\ IsSpace(Head(s)) THEN LStrip(Tail(s)) ELSE s

RECURSIVE RStrip(_)
RStrip(s) ==
  IF s # << >> /\ IsSpace(s[Len(s)]) THEN RStrip(SubSeq(s, 1, Len(s) - 1)) ELSE s

Strip(s) == RStrip(LStrip(s))

\* str.split(): the maximal runs of non-whitespace characters, in order
RECURSIVE SplitFrom(_, _, _)
SplitFrom(s, cur, acc) ==
  IF s = << >>
  THEN IF cur = << >> THEN acc ELSE Append(acc, cur)
  ELSE IF IsSpace(Head(s))
       THEN SplitFrom(Tail(s), << >>, IF cur = << >> THEN acc ELSE Append(acc, cur))
       ELSE SplitFrom(Tail(s), Append(cur, Head(s)), acc)

Split(s) == SplitFrom(s, << >>, << >>)

\* sub in s
StartsWith(s, sub) == Len(sub) <= Len(s) /\ SubSeq(s, 1, Len(sub)) = sub

Contains(s, sub) ==
  \E k \in 0..(Len(s) - Len(sub)) : SubSeq(s, k + 1, k + Len(sub)) = sub

\* str.replace(old, new) for a non-empty old: every occurrence, left to right
RECURSIVE Replace(_, _, _)
Replace(s, old, new) ==
  IF s = << >> THEN << >>
  ELSE IF StartsWith(s, old)
       THEN new \o Replace(SubSeq(s, Len(old) + 1, Len(s)), old, new)
       ELSE << Head(s) >> \o Replace(Tail(s), old, new)

\* f"{a} {b} {c}"
Join3(a, b, c) == a \o << " " >> \o b \o << " " >> \o c

\* str(cell) of a DataFrame cell: a missing cell prints as "nan"
Str(cell) == IF cell = NaN THEN << "n", "a", "n" >> ELSE cell

\* `not value` for an Optional[str] or a cell
Falsy(v) == v = None \/ v = << >>

(***************************************************************************)
(* datetime.strptime(text, "%d %B %Y") and strftime("%Y-%m-%d")            *)
(***************************************************************************)
INDONESIAN_MONTHS ==
  << << <<"j", "a", "n", "u", "a", "r", "i">>,
        <<"J", "a", "n", "u", "a", "r", "y">> >>,
     << <<"f", "e", "b", "r", "u", "a", "r", "i">>,
        <<"F", "e", "b", "r", "u", "a", "r", "y">> >>,
     << <<"m", "a", "r", "e", "t">>,
        <<"M", "a", "r", "c", "h">> >>,
     << <<"a", "p", "r", "i", "l">>,
        <<"A", "p", "r", "i", "l">> >>,
     << <<"m", "e", "i">>,
        <<"M", "a", "y">> >>,
     << <<"j", "u", "n", "i">>,
        <<"J", "u", "n", "e">> >>,
     << <<"j", "u", "l", "i">>,
        <<"J", "u", "l", "y">> >>,
     << <<"a", "g", "u", "s", "t", "u", "s">>,
        <<"A", "u", "g", "u", "s", "t">> >>,
     << <<"s", "e", "p", "t", "e", "m", "b", "e", "r">>,
        <<"S", "e", "p", "t", "e", "m", "b", "e", "r">> >>,
     << <<"o", "k", "t", "o", "b", "e", "r">>,
        <<"O", "c", "t", "o", "b", "e", "r">> >>,
     << <<"n", "o", "v", "e", "m", "b", "e", "r">>,
        <<"N", "o", "v", "e", "m", "b", "e", "r">> >>,
     << <<"d", "e", "s", "e", "m", "b", "e", "r">>,
        <<"D", "e", "c", "e", "m", "b", "e", "r">> >> >>

\* the month names %B accepts, compared without regard to letter case
MonthNames ==
  << <<"j", "a", "n", "u", "a", "r", "y">>,
     <<"f", "e", "b", "r", "u", "a", "r", "y">>,
     <<"m", "a", "r", "c", "h">>,
     <<"a", "p", "r", "i", "l">>,
     <<"m", "a", "y">>,
     <<"j", "u", "n", "e">>,
     <<"j", "u", "l", "y">>,
     <<"a", "u", "g", "u", "s", "t">>,
     <<"s", "e", "p", "t", "e", "m", "b", "e", "r">>,
     <<"o", "c", "t", "o", "b", "e", "r">>,
     <<"n", "o", "v", "e", "m", "b", "e", "r">>,
     <<"d", "e", "c", "e", "m", "b", "e", "r">> >>

ValueOfDigit == [ c \in DigitSet |-> (CHOOSE k \in DOMAIN Digits : Digits[k] = c) - 1 ]

DigitValue(c) == ValueOfDigit[c]

RECURSIVE NumValue(_)
NumValue(s) ==
  IF s = << >> THEN 0 ELSE 10 * NumValue(SubSeq(s, 1, Len(s) - 1)) + DigitValue(s[Len(s)])

AllDigits(s) == \A k \in DOMAIN s : IsDigit(s[k])

\* %d: 3[0-1] | [1-2]\d | 0[1-9] | [1-9]  (the alternative " [1-9]" is in StrptimeTokens)
MatchesDay(d) ==
  /\ Len(d) \in { 1, 2 }
  /\ AllDigits(d)
  /\ NumValue(d) \in 1..31

\* %Y: \d\d\d\d
MatchesYear(y) == Len(y) = 4 /\ AllDigits(y)

MonthNameSet == Range(MonthNames)

MatchesMonth(m) == Lower(m) \in MonthNameSet

MonthNumber(m) == CHOOSE k \in DOMAIN MonthNames : MonthNames[k] = Lower(m)

IsLeap(y) == y % 4 = 0 /\ (y % 100 # 0 \/ y % 400 = 0)

DaysInMonth(y, m) ==
  IF m = 2 THEN (IF IsLeap(y) THEN 29 ELSE 28)
  ELSE IF m \in { 4, 6, 9, 11 } THEN 30 ELSE 31

\* The text the format's regular expression is matched against, cut into the three
\* fields: the day may be written " 1".." 9" (one leading blank), the fields are
\* separated by \s+, and nothing may precede the day or follow the year.
StrptimeTokens(text) ==
  LET body == IF /\ Len(text) >= 2
                 /\ text[1] = " "
                 /\ IsDigit(text[2]) /\ text[2] # "0"
                 /\ (Len(text) = 2 \/ IsSpace(text[3]))
              THEN Tail(text)
              ELSE text
  IN  IF body # << >> /\ ~IsSpace(body[1]) /\ ~IsSpace(body[Len(body)])
      THEN Split(body)
      ELSE << >>

\* TRUE when strptime raises ValueError
StrptimeFails(text) ==
  LET p == StrptimeTokens(text)
  IN  \/ Len(p) # 3
      \/ ~MatchesDay(p[1])
      \/ ~MatchesMonth(p[2])
      \/ ~MatchesYear(p[3])
      \/ NumValue(p[3]) < 1
      \/ NumValue(p[1]) > DaysInMonth(NumValue(p[3]), MonthNumber(p[2]))

Pad(n, width) ==
  [k \in 1..width |->
     Digits[((n \div (IF k = width THEN 1 ELSE IF k = width - 1 THEN 10
                      ELSE IF k = width - 2 THEN 100 ELSE 1000)) % 10) + 1]]

\* strptime(text, "%d %B %Y").strftime("%Y-%m-%d"), for a text strptime accepts
StrptimeStrftime(text) ==
  LET p == StrptimeTokens(text)
  IN  Pad(NumValue(p[3]), 4) \o << "-" >> \o Pad(MonthNumber(p[2]), 2)
        \o << "-" >> \o Pad(NumValue(p[1]), 2)

IndonesianMonth(m) ==
  IF \E k \in DOMAIN INDONESIAN_MONTHS : INDONESIAN_MONTHS[k][1] = m
  THEN INDONESIAN_MONTHS[CHOOSE k \in DOMAIN INDONESIAN_MONTHS : INDONESIAN_MONTHS[k][1] = m][2]
  ELSE None

(***************************************************************************)
(* insert_participants.py: parse_indonesian_date                           *)
(***************************************************************************)
parse_indonesian_date_participants(cell) ==
  IF Falsy(cell) \/ cell = NaN
  THEN None
  ELSE LET date_str == Lower(Strip(Str(cell)))
           parts    == Split(date_str)
       IN  IF Len(parts) # 3
           THEN IF StrptimeFails(date_str) THEN None ELSE StrptimeStrftime(date_str)
           ELSE LET day       == parts[1]
                    month_ind == parts[2]
                    year      == parts[3]
                    month_eng == IndonesianMonth(month_ind)
                    text      == IF Falsy(month_eng)
                                 THEN Join3(day, Capitalize(month_ind), year)
                                 ELSE Join3(day, month_eng, year)
                IN  IF StrptimeFails(text) THEN None ELSE StrptimeStrftime(text)

(***************************************************************************)
(* insert_schedules.py: parse_indonesian_date                              *)
(***************************************************************************)
\* the first Indonesian month name, in table order, that occurs in the text
FirstMonthIn(text) ==
  IF \E k \in DOMAIN INDONESIAN_MONTHS : Contains(text, INDONESIAN_MONTHS[k][1])
  THEN LET k == CHOOSE j \in DOMAIN INDONESIAN_MONTHS :
                  /\ Contains(text, INDONESIAN_MONTHS[j][1])
                  /\ \A h \in 1..(j - 1) : ~Contains(text, INDONESIAN_MONTHS[h][1])
       IN  Replace(text, INDONESIAN_MONTHS[k][1], INDONESIAN_MONTHS[k][2])
  ELSE text

parse_indonesian_date_schedules(date_str) ==
  IF Falsy(date_str)
  THEN None
  ELSE LET date_str_lower == FirstMonthIn(Lower(date_str))
       IN  IF ~StrptimeFails(date_str_lower) THEN StrptimeStrftime(date_str_lower)
           ELSE IF ~StrptimeFails(date_str) THEN StrptimeStrftime(date_str)
           ELSE None

(***************************************************************************)
(* Input data                                                              *)
(***************************************************************************)
\* the texts the code writes into a report or a statement
NA == <<"N", "/", "A">>
NULL == <<"N", "U", "L", "L">>
QUOTE == <<"'">>

\* names and dates the inputs are drawn from
Budi == <<"B", "u", "d", "i">>
budi_padded == <<" ", "b", "u", "d", "i", " ">>
ONeil == <<"O", "'", "N", "e", "i", "l">>
TrainingCMA == <<"T", "r", "a", "i", "n", "i", "n", "g", " ", "C", "M", "A">>
training_cma == <<"t", "r", "a", "i", "n", "i", "n", "g", " ", "c", "m", "a">>
NewCourseX == <<"N", "e", "w", " ", "C", "o", "u", "r", "s", "e", " ", "X">>
d31Desember2024 == <<"3", "1", " ", "D", "e", "s", "e", "m", "b", "e", "r", " ", "2", "0", "2", "4">>
d31December2024 == <<"3", "1", " ", "D", "e", "c", "e", "m", "b", "e", "r", " ", "2", "0", "2", "4">>
d18January2025 == <<"1", "8", " ", "J", "a", "n", "u", "a", "r", "y", " ", "2", "0", "2", "5">>
d31Unknownmonth2024 == <<"3", "1", " ", "U", "n", "k", "n", "o", "w", "n", "m", "o", "n", "t", "h", " ", "2", "0", "2", "4">>
iso20241231 == <<"2", "0", "2", "4", "-", "1", "2", "-", "3", "1">>
iso20250118 == <<"2", "0", "2", "5", "-", "0", "1", "-", "1", "8">>
no12 == <<"1", "2">>
ketA == <<"/", "A">>
ket_quoted == <<"'", "A", "'">>
kids_excel_padded == <<"K", "i", "d", "s", "'", " ", "E", "x", "c", "e", "l", " ">>
kids_excel == <<"k", "i", "d", "s", "'", " ", "e", "x", "c", "e", "l">>
blank == <<" ">>
Empty == << >>
training_cma_padded == <<" ", "t", "r", "a", "i", "n", "i", "n", "g", " ", "c", "m", "a", " ">>

(***************************************************************************)
(* Bounds of the model                                                     *)
(***************************************************************************)
MaxRows == 2        \* rows of the source table read by one run

(***************************************************************************)
(* The rows of the source table (pandas.read_csv of main), one record per  *)
(* row, a missing cell being NaN.                                          *)
(***************************************************************************)
Row(nama, program, mulai, no, ket, sertifikat) ==
  [ Nama |-> nama, Program |-> program, Tanggal_Mulai |-> mulai,
    No |-> no, ket |-> ket, Tanggal_Sertifikat |-> sertifikat ]

ParticipantRows ==
  { Row(Budi, TrainingCMA, d31Desember2024, no12, ketA, d18January2025),
    Row(Budi, TrainingCMA, d31Desember2024, no12, ketA, NaN),
    Row(budi_padded, training_cma, d31December2024, blank, ketA, d31Unknownmonth2024),
    Row(ONeil, TrainingCMA, d31Desember2024, no12, blank, d18January2025),
    Row(ONeil, TrainingCMA, d18January2025, NaN, ketA, d18January2025),
    Row(Budi, NewCourseX, d31Desember2024, blank, blank, d18January2025),
    Row(Budi, TrainingCMA, d31Unknownmonth2024, no12, ketA, d18January2025),
    Row(ONeil, kids_excel_padded, d31Desember2024, blank, ket_quoted, d18January2025),
    Row(NaN, TrainingCMA, NaN, no12, ketA, d18January2025) }

(***************************************************************************)
(* The master data the snapshots are fetched from (database.py).           *)
(***************************************************************************)
\* get_programs_data: lower-cased program name -> id and category id
ProgramsData ==
  [ n \in { training_cma, kids_excel } |->
      IF n = training_cma THEN [ id |-> 5, cat_id |-> 2 ] ELSE [ id |-> 6, cat_id |-> 1 ] ]

\* get_schedules_data: (program id, start date) -> schedule id
SchedulesDataChoices ==
  { [ k \in { << 5, iso20241231 >>, << 6, iso20241231 >> } |-> k[1] + 2 ],
    [ k \in { << 5, iso20241231 >>, << 5, iso20250118 >> } |->
        IF k[2] = iso20241231 THEN 7 ELSE 0 ],
    [ k \in { } |-> 0 ] }

\* get_participants_data: the rows of table participants
ParticipantsDataChoices ==
  { { }, { [ id_schedule |-> 7, name |-> Budi ] } }

VARIABLES
  mode,                   \* the entry point that runs
  pc,                     \* the place the run has reached
  participants_table,     \* master data: rows of table participants
  df,                     \* main: the DataFrame read from the source table
  programs_map,           \* main: load_programs_map
  schedules_map,          \* main: load_schedules_map
  existing_participants,  \* main: load_existing_participants
  run,                    \* 1 for the first run of the script, 2 for the re-run
  prev_report,            \* the report of the first run, kept for the re-run
  i,                      \* generate_sql: index of the next row of df.iterrows()
  sql_statements,         \* generate_sql
  report,                 \* generate_sql
  processed_count,        \* generate_sql
  inserted_count,         \* generate_sql
  skipped_count,          \* generate_sql
  not_found_count,        \* generate_sql
  csv_file,               \* insert_schedules: the rows csv.DictReader has yielded
  csv_data,               \* insert_schedules: process_csv_data
  grouped_data,           \* insert_schedules: group_csv_data
  programs_data,          \* insert_schedules: get_programs_data
  existing_schedules,     \* insert_schedules: get_existing_schedules
  all_report_data,        \* insert_schedules, insert_programs: the decision list
  program_translations,   \* master data: the names of table program_translations
  new_programs,           \* insert_programs: the candidate list (NEW_PROGRAM_LIST)
  existing_programs,      \* insert_programs: get_existing_program_names
  sql_content,            \* the script generate_sql / generate_sql_script returns
  call_args,              \* a call of predict_category or parse_indonesian_date: arguments
  call_result,            \* the value the call returned
  call_again,             \* parse_indonesian_date applied to the value it returned
  dry_run,                \* args.dry_run of the run
  output_dir,             \* the file system: OUTPUT_DIR exists
  output_file,            \* the file system: the lines of OUTPUT_DIR/OUTPUT_FILE
  fs_at_start,            \* << output_dir, output_file >> when the run started
  fetch_calls             \* the calls of each DatabaseManager method in the run

snapshotVars == << programs_map, schedules_map >>
countVars    == << processed_count, inserted_count, skipped_count, not_found_count >>
genVars      == << i, sql_statements, report, countVars >>
partVars     == << participants_table, df, snapshotVars, existing_participants,
                   run, prev_report, genVars >>
schedVars    == << csv_file, csv_data, grouped_data, programs_data, existing_schedules >>
progVars     == << program_translations, new_programs, existing_programs >>
callVars     == << call_args, call_result, call_again >>
fsVars       == << output_dir, output_file >>
mainVars     == << dry_run, fsVars, fs_at_start, fetch_calls >>
vars         == << mode, pc, partVars, schedVars, progVars, all_report_data, sql_content,
                   callVars, mainVars >>

\* OUTPUT_DIR/OUTPUT_FILE does not exist
NoFile == << [ kind |-> "(no file)" ] >>

\* the methods of DatabaseManager
Fetches ==
  { "get_existing_program_names", "get_programs_data", "get_existing_schedules",
    "get_schedules_data", "get_participants_data" }

NoFetch == [ f \in Fetches |-> 0 ]

\* the counts after one more call of each method of `called`
Called(called) ==
  [ f \in Fetches |-> IF f \in called THEN fetch_calls[f] + 1 ELSE fetch_calls[f] ]

(***************************************************************************)
(* insert_participants.py                                                  *)
(***************************************************************************)
load_existing_participants(participants_data) ==
  { << p.id_schedule, Lower(p.name) >> : p \in participants_data }

\* value.replace("'", "''")
\* str.replace("'", "''", 1): only the first single quote is doubled
escape_first_quote(value) ==
  LET quotes == { k \in DOMAIN value : value[k] = QUOTE[1] }
  IN  IF quotes = { } THEN value
      ELSE LET first == CHOOSE k \in quotes : \A j \in quotes : k <= j
           IN  SubSeq(value, 1, first) \o QUOTE \o SubSeq(value, first + 1, Len(value))

escape_quotes(value) == Replace(value, QUOTE, QUOTE \o QUOTE)

certificate_ref_of(no_value, ket_value) ==
  IF ~Falsy(no_value) /\ ~Falsy(ket_value) THEN no_value \o ket_value ELSE ket_value

\* schedules_map.get(schedule_key) followed by `if not schedule_id`
schedule_id_missing(map, schedule_key) ==
  \/ schedule_key \notin DOMAIN map
  \/ map[schedule_key] = 0

\* the statements generate_sql emits
StartTransaction == [ kind |-> "START TRANSACTION;" ]
Commit           == [ kind |-> "COMMIT;" ]
SetLastPartId    == [ kind |-> "SET @last_part_id = LAST_INSERT_ID();" ]

InsertParticipant(schedule_id, program_id, category_id, escaped_name) ==
  [ kind |-> "INSERT INTO participants", id_schedule |-> schedule_id,
    id_program |-> program_id, id_category |-> category_id, name |-> escaped_name ]

InsertCertificate(escaped_cert_ref, escaped_program_name, issued_at_sql) ==
  [ kind |-> "INSERT INTO certificates", id_participant |-> "@last_part_id",
    reference_number |-> escaped_cert_ref, nama_program |-> escaped_program_name,
    issued_at |-> issued_at_sql ]

\* the fields of a row as generate_sql reads them (lines 180-189)
participant_name_of(row) == Strip(Str(row.Nama))
program_name_of(row)     == Strip(Str(row.Program))
\* parse_indonesian_date of every date cell of the source table, computed once
DateCells ==
  { r.Tanggal_Mulai : r \in ParticipantRows } \cup { r.Tanggal_Sertifikat : r \in ParticipantRows }

ParsedDateCells == [ cell \in DateCells |-> parse_indonesian_date_participants(cell) ]

start_date_of(row)       == ParsedDateCells[row.Tanggal_Mulai]
issue_date_of(row)       == ParsedDateCells[row.Tanggal_Sertifikat]
row_certificate_ref(row) == certificate_ref_of(Strip(Str(row.No)), Strip(Str(row.ket)))

ReportItem(row, status, action) ==
  [ participant_name       |-> participant_name_of(row),
    program_name           |-> program_name_of(row),
    schedule_start_date    |-> IF Falsy(start_date_of(row)) THEN NA ELSE start_date_of(row),
    certificate_ref        |-> row_certificate_ref(row),
    certificate_issue_date |-> IF Falsy(issue_date_of(row)) THEN NA ELSE issue_date_of(row),
    status                 |-> status,
    action                 |-> action ]

\* main, lines 297-300: the output directory is made before anything is read
MainParticipantsStart ==
  /\ mode = "participants" /\ pc = "start"
  /\ output_dir' = TRUE
  /\ pc' = "read"
  /\ UNCHANGED << callVars, mode, partVars, schedVars, progVars, all_report_data,
                  sql_content, dry_run, output_file, fs_at_start, fetch_calls >>

\* main, lines 317-327: the source table cannot be read, or lacks a required column
ReadCsvFails ==
  /\ mode = "participants" /\ pc = "read"
  /\ pc' = "aborted"
  /\ UNCHANGED << callVars, mainVars, mode, partVars, schedVars, progVars,
                  all_report_data, sql_content >>

\* the order in which main calls the methods, lines 329-346
ParticipantFetches == << "get_programs_data", "get_schedules_data", "get_participants_data" >>

\* the loads placed after open(output_path, "w"): a load that raises leaves the file empty
LoadMapsFailsAfterOpen ==
  /\ mode = "participants" /\ pc = "read"
  /\ \E n \in DOMAIN ParticipantFetches :
       fetch_calls' = Called({ ParticipantFetches[k] : k \in 1..n })
  /\ output_file' = << >>
  /\ pc' = "aborted"
  /\ UNCHANGED << callVars, mode, partVars, schedVars, progVars, all_report_data,
                  sql_content, dry_run, output_dir, fs_at_start >>

\* main, lines 329-346: the n-th of the three loads raises
LoadMapsFails ==
  /\ mode = "participants" /\ pc = "read"
  /\ \E n \in DOMAIN ParticipantFetches :
       fetch_calls' = Called({ ParticipantFetches[k] : k \in 1..n })
  /\ pc' = "aborted"
  /\ UNCHANGED << callVars, mode, partVars, schedVars, progVars, all_report_data,
                  sql_content, dry_run, fsVars, fs_at_start >>

\* main, up to the call of generate_sql: one more row of the source table
ReadRow ==
  /\ mode = "participants" /\ pc = "read" /\ run = 1
  /\ Len(df) < MaxRows
  /\ \E row \in ParticipantRows : df' = Append(df, row)
  /\ UNCHANGED << callVars, mainVars, mode, pc, participants_table, snapshotVars, existing_participants,
                  run, prev_report, genVars, schedVars, progVars, all_report_data, sql_content >>

\* main, lines 329-346: the three loads; generate_sql, lines 171-176
GenerateSqlBegin ==
  /\ mode = "participants" /\ pc = "read"
  /\ fetch_calls' = Called(Range(ParticipantFetches))
  /\ existing_participants' = load_existing_participants(participants_table)
  /\ pc' = "loop"
  /\ i' = 1
  /\ sql_statements' = << StartTransaction >>
  /\ report' = << >>
  /\ processed_count' = 0 /\ inserted_count' = 0
  /\ skipped_count' = 0 /\ not_found_count' = 0
  /\ UNCHANGED << callVars, mode, participants_table, df, snapshotVars,
                  run, prev_report, schedVars, progVars, all_report_data, sql_content,
                  dry_run, fsVars, fs_at_start >>

\* the membership test of line 232 without .lower()
participant_exists_case_sensitive(existing, schedule_id, participant_name) ==
  << schedule_id, participant_name >> \in existing

\* `(schedule_id, participant_name.lower()) in existing_participants`, line 232
participant_exists(existing, schedule_id, participant_name) ==
  << schedule_id, Lower(participant_name) >> \in existing

\* What one iteration of the loop does on each of its five paths: the record it
\* appends to the report, the statements it appends, and the counter it adds one to.
Outcome(item, statements, inserted, skipped, not_found) ==
  [ item |-> item, statements |-> statements,
    inserted |-> inserted, skipped |-> skipped, not_found |-> not_found ]

\* lines 201-206
outcome_invalid_start_date(row) ==
  Outcome(ReportItem(row, "Skipped", "Invalid schedule start date"), << >>, 0, 1, 0)

\* lines 211-216
outcome_program_not_found(row) ==
  Outcome(ReportItem(row, "Not Found", "Program not found in master data"), << >>, 0, 0, 1)

\* lines 224-229
outcome_schedule_not_found(row) ==
  Outcome(ReportItem(row, "Not Found", "Schedule not found for this program and date"),
          << >>, 0, 0, 1)

\* lines 232-237 without `skipped_count += 1`
outcome_already_exists_uncounted(row) ==
  Outcome(ReportItem(row, "Skipped", "Participant already exists for this schedule"),
          << >>, 0, 0, 0)

\* lines 232-237
outcome_already_exists(row) ==
  Outcome(ReportItem(row, "Skipped", "Participant already exists for this schedule"),
          << >>, 0, 1, 0)

\* lines 239-264
outcome_insert(row, schedule_id, program_id, category_id) ==
  Outcome(ReportItem(row, "To Be Inserted", "Participant and Certificate records generated"),
          << InsertParticipant(schedule_id, program_id, category_id,
                               escape_quotes(participant_name_of(row))),
             SetLastPartId,
             InsertCertificate(escape_quotes(row_certificate_ref(row)),
                               escape_quotes(program_name_of(row)),
                               IF Falsy(issue_date_of(row))
                               THEN NULL
                               ELSE QUOTE \o issue_date_of(row) \o QUOTE) >>,
          1, 0, 0)

\* lines 201-264: the path one row takes
row_outcome(row, programs, schedules, existing) ==
  LET schedule_start_date_str == start_date_of(row)
      program_name_lower      == Lower(program_name_of(row))
  IN  IF Falsy(schedule_start_date_str)
      THEN outcome_invalid_start_date(row)
      ELSE IF program_name_lower \notin DOMAIN programs
      THEN outcome_program_not_found(row)
      ELSE LET program_id   == programs[program_name_lower].id
               category_id  == programs[program_name_lower].cat_id
               schedule_key == << program_id, schedule_start_date_str >>
           IN  IF schedule_id_missing(schedules, schedule_key)
               THEN outcome_schedule_not_found(row)
               ELSE IF participant_exists(existing, schedules[schedule_key],
                                          participant_name_of(row))
               THEN outcome_already_exists(row)
               ELSE outcome_insert(row, schedules[schedule_key], program_id, category_id)

\* generate_sql, lines 178-264: one iteration of the loop over the rows
GenerateSqlRow ==
  /\ mode = "participants" /\ pc = "loop"
  /\ i <= Len(df)
  /\ LET o == row_outcome(df[i], programs_map, schedules_map, existing_participants)
     IN  /\ processed_count' = processed_count + 1
         /\ report' = Append(report, o.item)
         /\ sql_statements' = sql_statements \o o.statements
         /\ inserted_count' = inserted_count + o.inserted
         /\ skipped_count' = skipped_count + o.skipped
         /\ not_found_count' = not_found_count + o.not_found
  /\ i' = i + 1
  /\ UNCHANGED << callVars, mainVars, mode, pc, participants_table, df, snapshotVars, existing_participants,
                  run, prev_report, schedVars, progVars, all_report_data, sql_content >>

\* generate_sql, lines 266-281: the closing statement and the summary record
SummaryItem ==
  [ participant_name       |-> "--- SUMMARY ---",
    program_name           |-> processed_count,
    schedule_start_date    |-> inserted_count,
    certificate_ref        |-> skipped_count,
    certificate_issue_date |-> not_found_count,
    status                 |-> "Complete",
    action                 |-> "SQL Generation Finished" ]

GenerateSqlEnd ==
  /\ mode = "participants" /\ pc = "loop"
  /\ i > Len(df)
  /\ sql_statements' = Append(sql_statements, Commit)
  /\ sql_content' = sql_statements'
  /\ report' = Append(report, SummaryItem)
  /\ pc' = "done"
  /\ UNCHANGED << callVars, mainVars, mode, participants_table, df, snapshotVars, existing_participants,
                  run, prev_report, i, countVars, schedVars, progVars,
                  all_report_data >>

\* the positions of the participant inserts in a script
ParticipantInserts(script) ==
  { k \in DOMAIN script : script[k].kind = "INSERT INTO participants" }

CertificateInserts(script) ==
  { k \in DOMAIN script : script[k].kind = "INSERT INTO certificates" }

\* the value MySQL stores for a quoted literal: '' stands for one quote
sql_literal_value(literal) == Replace(literal, QUOTE \o QUOTE, QUOTE)

\* main, lines 354-390: the summary of a dry run
DryRunSummary ==
  /\ mode = "participants" /\ pc = "done"
  /\ dry_run
  /\ pc' = "reported"
  /\ UNCHANGED << callVars, mainVars, mode, partVars, schedVars, progVars,
                  all_report_data, sql_content >>

\* main, lines 391-400: the script is written to OUTPUT_DIR/OUTPUT_FILE
WriteSqlFile ==
  /\ mode = "participants" /\ pc = "done"
  /\ ~dry_run
  /\ output_file' = sql_content
  /\ pc' = "written"
  /\ UNCHANGED << callVars, mode, partVars, schedVars, progVars, all_report_data,
                  sql_content, dry_run, output_dir, fs_at_start, fetch_calls >>

\* The script file of the first run is applied to the master data (one transaction),
\* and main runs again on the same source table.
ApplyScriptAndRerun ==
  /\ mode = "participants" /\ pc = "written" /\ run = 1
  /\ participants_table' = participants_table \cup
       { [ id_schedule |-> sql_statements[k].id_schedule,
           name        |-> sql_literal_value(sql_statements[k].name) ] :
         k \in ParticipantInserts(sql_statements) }
  /\ prev_report' = report
  /\ run' = 2
  /\ pc' = "start"
  /\ dry_run' \in BOOLEAN
  /\ fs_at_start' = << output_dir, output_file >>
  /\ fetch_calls' = NoFetch
  /\ UNCHANGED << callVars, fsVars, mode, df, snapshotVars, existing_participants, genVars,
                  schedVars, progVars, all_report_data, sql_content >>


(***************************************************************************)
(* insert_schedules.py                                                     *)
(***************************************************************************)
MaxCsvRows == 2     \* rows of the CSV file read by one schedules run

\* Optional[int] without a value (program_id, category_id of a decision)
NoneInt == -1

CsvRow(program, mulai, sertifikat) ==
  [ Program |-> program, Tanggal_Mulai |-> mulai, Tanggal_Sertifikat |-> sertifikat ]

\* the rows csv.DictReader yields
CsvRows ==
  { CsvRow(TrainingCMA, d31Desember2024, d18January2025),
    CsvRow(TrainingCMA, d31Desember2024, d31Desember2024),
    CsvRow(training_cma_padded, d31Desember2024, d18January2025),
    CsvRow(TrainingCMA, d31December2024, d18January2025),
    CsvRow(TrainingCMA, d18January2025, d18January2025),
    CsvRow(TrainingCMA, d18January2025, d31Unknownmonth2024),
    CsvRow(TrainingCMA, d31Unknownmonth2024, d18January2025),
    CsvRow(NewCourseX, d31Desember2024, d18January2025),
    CsvRow(NewCourseX, d31Unknownmonth2024, d18January2025),
    CsvRow(TrainingCMA, blank, d18January2025) }

\* get_existing_schedules: the (program id, start date) pairs of table schedules
ExistingSchedulesChoices == { { }, { << 5, iso20241231 >> } }

\* normalize_program_name
normalize_program_name(program_name) ==
  IF Falsy(program_name) THEN Empty ELSE program_name

\* process_csv_data, lines 116-129: what one row of the reader adds to data
csv_row_data(row) ==
  LET program_name == Strip(row.Program)
      start_date   == Strip(row.Tanggal_Mulai)
      end_date     == Strip(row.Tanggal_Sertifikat)
  IN  IF ~Falsy(program_name) /\ ~Falsy(start_date) /\ ~Falsy(end_date)
      THEN << [ program |-> program_name, start_date |-> start_date,
                end_date |-> end_date ] >>
      ELSE << >>

\* group_csv_data: the dict in insertion order, as a sequence of << key, item >>
group_key(item) == << item.program, item.start_date >>

RECURSIVE group_csv_data_from(_, _)
group_csv_data_from(data, grouped) ==
  IF data = << >> THEN grouped
  ELSE LET item == Head(data)
           key  == group_key(item)
       IN  group_csv_data_from(Tail(data),
             IF \E g \in DOMAIN grouped : grouped[g][1] = key
             THEN grouped
             ELSE Append(grouped, << key, item >>))

\* group_csv_data without `if key not in grouped_data`: a later row replaces the item
RECURSIVE group_csv_data_overwrite_from(_, _)
group_csv_data_overwrite_from(data, grouped) ==
  IF data = << >> THEN grouped
  ELSE LET item == Head(data)
           key  == group_key(item)
       IN  group_csv_data_overwrite_from(Tail(data),
             IF \E g \in DOMAIN grouped : grouped[g][1] = key
             THEN [ g \in DOMAIN grouped |->
                      IF grouped[g][1] = key THEN << key, item >> ELSE grouped[g] ]
             ELSE Append(grouped, << key, item >>))

group_csv_data_overwrite(data) == group_csv_data_overwrite_from(data, << >>)

group_csv_data(data) == group_csv_data_from(data, << >>)

ScheduleReportItem(program_name, start_date, end_date, program_id, category_id, status, action) ==
  [ program_name |-> program_name, start_date |-> start_date, end_date |-> end_date,
    program_id |-> program_id, category_id |-> category_id,
    status |-> status, action |-> action ]

\* process_schedules with the program looked up before the dates are checked
schedule_decision_program_first(key, item, programs, existing) ==
  LET program_name    == key[1]
      start_date_str  == key[2]
      normalized_name == normalize_program_name(program_name)
      program_key     == Lower(normalized_name)
      start_date      == parse_indonesian_date_schedules(start_date_str)
      end_date        == parse_indonesian_date_schedules(item.end_date)
      start_text      == IF Falsy(start_date) THEN Empty ELSE start_date
      end_text        == IF Falsy(end_date) THEN Empty ELSE end_date
  IN  IF program_key \notin DOMAIN programs
      THEN ScheduleReportItem(normalized_name, start_text, end_text, NoneInt, NoneInt,
                              "Program Not Found", "Skip")
      ELSE IF Falsy(start_date) \/ Falsy(end_date)
      THEN ScheduleReportItem(normalized_name, start_text, end_text, NoneInt, NoneInt,
                              "Invalid Date", "Skip")
      ELSE LET program_id  == programs[program_key].id
               category_id == programs[program_key].cat_id
           IN  IF << program_id, start_date >> \in existing
               THEN ScheduleReportItem(normalized_name, start_text, end_text,
                                       program_id, category_id, "Exists", "Skip")
               ELSE ScheduleReportItem(normalized_name, start_text, end_text,
                                       program_id, category_id, "New", "Insert")

\* process_schedules, lines 172-216: the decision of one group
schedule_decision(key, item, programs, existing) ==
  LET program_name    == key[1]
      start_date_str  == key[2]
      normalized_name == normalize_program_name(program_name)
      program_key     == Lower(normalized_name)
      start_date      == parse_indonesian_date_schedules(start_date_str)
      end_date        == parse_indonesian_date_schedules(item.end_date)
      start_text      == IF Falsy(start_date) THEN Empty ELSE start_date
      end_text        == IF Falsy(end_date) THEN Empty ELSE end_date
  IN  IF Falsy(start_date) \/ Falsy(end_date)
      THEN ScheduleReportItem(normalized_name, start_text, end_text, NoneInt, NoneInt,
                              "Invalid Date", "Skip")
      ELSE IF program_key \notin DOMAIN programs
      THEN ScheduleReportItem(normalized_name, start_text, end_text, NoneInt, NoneInt,
                              "Program Not Found", "Skip")
      ELSE LET program_id  == programs[program_key].id
               category_id == programs[program_key].cat_id
           IN  IF << program_id, start_date >> \in existing
               THEN ScheduleReportItem(normalized_name, start_text, end_text,
                                       program_id, category_id, "Exists", "Skip")
               ELSE ScheduleReportItem(normalized_name, start_text, end_text,
                                       program_id, category_id, "New", "Insert")

process_schedules(grouped, programs, existing) ==
  [ g \in DOMAIN grouped |->
      schedule_decision(grouped[g][1], grouped[g][2], programs, existing) ]

\* the lines both generate_sql_script functions emit
HeaderGenerated == [ kind |-> "-- Generated by certificates-data-entry-tools" ]
HeaderDate      == [ kind |-> "-- Date:" ]
HeaderTarget    == [ kind |-> "-- Output target:" ]
BlankLine       == [ kind |-> "" ]
ScriptHeader    == << HeaderGenerated, HeaderDate, HeaderTarget, StartTransaction, BlankLine >>

\* insert_schedules.generate_sql_script, lines 306-318: the lines of one decision
schedule_unit(s) ==
  IF s.action # "Insert"
  THEN << >>
  ELSE << [ kind |-> "-- New Schedule:", program_name |-> s.program_name,
            start_date |-> s.start_date, end_date |-> s.end_date ],
          [ kind |-> "INSERT INTO schedules", id_program |-> s.program_id,
            id_category |-> s.category_id,
            date_start |-> QUOTE \o s.start_date \o QUOTE,
            date_end |-> QUOTE \o s.end_date \o QUOTE ],
          BlankLine >>

RECURSIVE schedule_units(_)
schedule_units(decisions) ==
  IF decisions = << >> THEN << >>
  ELSE schedule_unit(Head(decisions)) \o schedule_units(Tail(decisions))

\* generate_sql_script without `sql_lines.append("COMMIT;")`
generate_sql_script_schedules_uncommitted(schedules_to_insert) ==
  ScriptHeader \o schedule_units(schedules_to_insert)

generate_sql_script_schedules(schedules_to_insert) ==
  ScriptHeader \o schedule_units(schedules_to_insert) \o << Commit >>

\* __main__, lines 337-343: the two snapshots are fetched before the file is read
FetchScheduleSnapshots ==
  /\ mode = "schedules" /\ pc = "start"
  /\ fetch_calls' = Called({ "get_programs_data", "get_existing_schedules" })
  /\ pc' = "read"
  /\ UNCHANGED << callVars, mode, partVars, schedVars, progVars, all_report_data,
                  sql_content, dry_run, fsVars, fs_at_start >>

\* __main__, lines 337-343: get_programs_data raises, or get_existing_schedules does
FetchScheduleSnapshotsFails ==
  /\ mode = "schedules" /\ pc = "start"
  /\ \E called \in { { "get_programs_data" }, { "get_programs_data", "get_existing_schedules" } } :
       fetch_calls' = Called(called)
  /\ pc' = "aborted"
  /\ UNCHANGED << callVars, mode, partVars, schedVars, progVars, all_report_data,
                  sql_content, dry_run, fsVars, fs_at_start >>

\* process_csv_data, lines 111-118: the file cannot be opened, or a row cannot be read
ProcessCsvFails ==
  /\ mode = "schedules" /\ pc = "read"
  /\ pc' = "aborted"
  /\ UNCHANGED << callVars, mainVars, mode, partVars, schedVars, progVars,
                  all_report_data, sql_content >>

\* process_csv_data: one row of the reader
ProcessCsvRow ==
  /\ mode = "schedules" /\ pc = "read"
  /\ Len(csv_file) < MaxCsvRows
  /\ \E row \in CsvRows :
       /\ csv_file' = Append(csv_file, row)
       /\ csv_data' = csv_data \o csv_row_data(row)
  /\ UNCHANGED << callVars, mainVars, mode, pc, partVars, grouped_data, programs_data, existing_schedules,
                  progVars, all_report_data, sql_content >>

\* main: group_csv_data(csv_data)
GroupCsvData ==
  /\ mode = "schedules" /\ pc = "read"
  /\ grouped_data' = group_csv_data(csv_data)
  /\ pc' = "grouped"
  /\ UNCHANGED << callVars, mainVars, mode, partVars, csv_file, csv_data, programs_data, existing_schedules,
                  progVars, all_report_data, sql_content >>

\* main: process_schedules(grouped_data, programs_data, existing_schedules)
ProcessSchedules ==
  /\ mode = "schedules" /\ pc = "grouped"
  /\ all_report_data' = process_schedules(grouped_data, programs_data, existing_schedules)
  /\ pc' = "processed"
  /\ UNCHANGED << callVars, mainVars, mode, partVars, schedVars, progVars, sql_content >>

\* __main__, lines 359-362: the report of a dry run
DryRunReportSchedules ==
  /\ mode = "schedules" /\ pc = "processed"
  /\ dry_run
  /\ pc' = "reported"
  /\ UNCHANGED << callVars, mainVars, mode, partVars, schedVars, progVars,
                  all_report_data, sql_content >>

\* __main__, lines 369-371
IsScheduleToInsert(s) == s.action = "Insert"

schedules_to_insert(decisions) == SelectSeq(decisions, IsScheduleToInsert)

\* __main__, lines 364-374: no decision is to be inserted, no file is written
NoSchedulesToInsert ==
  /\ mode = "schedules" /\ pc = "processed"
  /\ ~dry_run
  /\ schedules_to_insert(all_report_data) = << >>
  /\ output_dir' = TRUE
  /\ pc' = "finished"
  /\ UNCHANGED << callVars, mode, partVars, schedVars, progVars, all_report_data,
                  sql_content, dry_run, output_file, fs_at_start, fetch_calls >>

\* __main__, lines 364-386: the script of the decisions to insert is written
WriteSchedulesSqlFile ==
  /\ mode = "schedules" /\ pc = "processed"
  /\ ~dry_run
  /\ schedules_to_insert(all_report_data) # << >>
  /\ output_dir' = TRUE
  /\ sql_content' = generate_sql_script_schedules(schedules_to_insert(all_report_data))
  /\ output_file' = sql_content'
  /\ pc' = "written"
  /\ UNCHANGED << callVars, mode, partVars, schedVars, progVars, all_report_data,
                  dry_run, fs_at_start, fetch_calls >>

\* generate_sql_script called on a decision list of any content (the claims about the
\* builder are about every decision list; __main__ calls it in WriteSchedulesSqlFile)
GenerateSqlScriptSchedules ==
  /\ mode = "schedules" /\ pc = "processed"
  /\ sql_content' = generate_sql_script_schedules(all_report_data)
  /\ pc' = "done"
  /\ UNCHANGED << callVars, mainVars, mode, partVars, schedVars, progVars, all_report_data >>


(***************************************************************************)
(* config.py                                                               *)
(***************************************************************************)
CATEGORY_IDS ==
  [ c \in { "Engineering", "Accounting", "Construction", "Management", "IT", "Communication", "Academic", "HR", "Leadership", "Forum", "Certification", "TestPrep", "Webinar", "GenZ" } |->
      CASE c = "Engineering" -> 1
        [] c = "Accounting" -> 2
        [] c = "Construction" -> 3
        [] c = "Management" -> 4
        [] c = "IT" -> 5
        [] c = "Communication" -> 6
        [] c = "Academic" -> 7
        [] c = "HR" -> 8
        [] c = "Leadership" -> 9
        [] c = "Forum" -> 10
        [] c = "Certification" -> 11
        [] c = "TestPrep" -> 12
        [] c = "Webinar" -> 13
        [] c = "GenZ" -> 14 ]

\* the rules in the order of the dict
RULES ==
  << << "Construction", << <<"s", "a", "p", " ", "2", "0", "0", "0">> >> >>,
     << "Engineering", << <<"p", "l", "c">> >> >>,
     << "Accounting", << <<"c", "m", "a">>,
          <<"t", "a", "x">> >> >>,
     << "IT", << <<"e", "x", "c", "e", "l">> >> >>,
     << "Communication", << <<"p", "u", "b", "l", "i", "c", " ", "s", "p", "e", "a", "k", "i", "n", "g">>,
          <<"c", "o", "n", "t", "e", "n", "t", " ", "c", "r", "e", "a", "t", "o", "r">> >> >>,
     << "Management", << <<"b", "i", "s", "n", "i", "s">>,
          <<"u", "m", "k", "m">>,
          <<"p", "p", "i", "c">> >> >>,
     << "GenZ", << <<"g", "e", "n", "-", "z">>,
          <<"g", "e", "n", "z">> >> >> >>

PublicSpeakingHacks == <<"P", "u", "b", "l", "i", "c", " ", "S", "p", "e", "a", "k", "i", "n", "g", " ", "H", "a", "c", "k", "s">>
MakeupClass == <<"M", "a", "k", "e", "u", "p", " ", "C", "l", "a", "s", "s", ":", " ", "R", "e", "a", "d", "y", ",", " ", "S", "e", "t", ",", " ", "G", "l", "o", "w">>
GenZFashion == <<"G", "e", "n", "-", "Z", " ", "F", "a", "s", "h", "i", "o", "n", " ", "D", "e", "s", "i", "g", "n", " ", "f", "o", "r", " ", "B", "e", "g", "i", "n", "n", "e", "r">>
KidsExcel == kids_excel_padded

(***************************************************************************)
(* insert_programs.py                                                      *)
(***************************************************************************)
MaxPrograms == 2    \* names of the candidate list of one programs run

\* the candidate names a list is drawn from
CandidateNames ==
  { TrainingCMA, training_cma_padded, PublicSpeakingHacks, MakeupClass, GenZFashion,
    KidsExcel }

\* table program_translations before the first run
ProgramTranslationsChoices == { { }, { TrainingCMA } }

\* DatabaseManager.get_existing_program_names
get_existing_program_names(names) == { Lower(n) : n \in names }

\* \w of a regular expression
IsWordChar(c) == c \in UpperSet \/ c \in LowerSet \/ c \in DigitSet \/ c = "_"

\* \b between the characters k and k + 1 of text
WordBoundary(text, k) ==
  (k >= 1 /\ k <= Len(text) /\ IsWordChar(text[k]))
    # (k + 1 >= 1 /\ k + 1 <= Len(text) /\ IsWordChar(text[k + 1]))

\* re.search(rf"\b{re.escape(keyword)}\b", text)
word_search(keyword, text) ==
  \E k \in 0..(Len(text) - Len(keyword)) :
    /\ SubSeq(text, k + 1, k + Len(keyword)) = keyword
    /\ WordBoundary(text, k)
    /\ WordBoundary(text, k + Len(keyword))

\* predict_category: << category, id >>
predict_category(program_name_normalized, rules) ==
  IF \E r \in DOMAIN rules :
       \E w \in DOMAIN rules[r][2] : word_search(rules[r][2][w], program_name_normalized)
  THEN LET r == CHOOSE q \in DOMAIN rules :
                  /\ \E w \in DOMAIN rules[q][2] :
                       word_search(rules[q][2][w], program_name_normalized)
                  /\ \A h \in 1..(q - 1) : \A w \in DOMAIN rules[h][2] :
                       ~word_search(rules[h][2][w], program_name_normalized)
           category == rules[r][1]
       IN  << category,
              IF category \in DOMAIN CATEGORY_IDS THEN CATEGORY_IDS[category] ELSE NoneInt >>
  ELSE << "Uncategorized", NoneInt >>

\* slugify(text) of python-slugify, for ASCII text: lower-case, every run of other
\* characters than letters and digits becomes one "-", none at either end
RECURSIVE slug_from(_, _)
slug_from(text, acc) ==
  IF text = << >>
  THEN IF acc # << >> /\ acc[Len(acc)] = "-" THEN SubSeq(acc, 1, Len(acc) - 1) ELSE acc
  ELSE LET c == LowerChar(Head(text))
       IN  IF c \in LowerSet \/ c \in DigitSet
           THEN slug_from(Tail(text), Append(acc, c))
           ELSE slug_from(Tail(text),
                  IF acc = << >> \/ acc[Len(acc)] = "-" THEN acc ELSE Append(acc, "-"))

slugify(text) == slug_from(text, << >>)

\* the decision of one candidate with the name compared as written (no strip, no lower)
program_decision_name_as_written(program_name, existing, rules) ==
  LET predicted == predict_category(Lower(Strip(program_name)), rules)
  IN  IF program_name \notin existing
      THEN [ program_name          |-> program_name,
             status                |-> "New",
             predicted_category    |-> predicted[1],
             predicted_category_id |-> IF predicted[1] = "Uncategorized"
                                       THEN NoneInt ELSE predicted[2],
             action                |-> "Insert",
             slug                  |-> slugify(Strip(program_name)) ]
      ELSE [ program_name          |-> program_name,
             status                |-> "Exists",
             predicted_category    |-> "N/A",
             predicted_category_id |-> NoneInt,
             action                |-> "Skip",
             slug                  |-> slugify(Strip(program_name)) ]

\* process_programs, lines 77-111: the decision of one candidate
program_decision(program_name, existing, rules) ==
  LET normalized_name == Lower(Strip(program_name))
      predicted       == predict_category(normalized_name, rules)
  IN  IF normalized_name \notin existing
      THEN [ program_name          |-> program_name,
             status                |-> "New",
             predicted_category    |-> predicted[1],
             predicted_category_id |-> IF predicted[1] = "Uncategorized"
                                       THEN NoneInt ELSE predicted[2],
             action                |-> "Insert",
             slug                  |-> slugify(Strip(program_name)) ]
      ELSE [ program_name          |-> program_name,
             status                |-> "Exists",
             predicted_category    |-> "N/A",
             predicted_category_id |-> NoneInt,
             action                |-> "Skip",
             slug                  |-> slugify(Strip(program_name)) ]

process_programs(programs, existing, rules) ==
  [ k \in DOMAIN programs |-> program_decision(programs[k], existing, rules) ]

SetLastProgId == [ kind |-> "SET @last_prog_id = LAST_INSERT_ID();" ]

\* the lines of one decision with the identifier captured after the child insert
program_unit_capture_after_child(p) ==
  IF p.action # "Insert" \/ p.predicted_category_id = NoneInt
  THEN << >>
  ELSE << [ kind |-> "-- New Program:", program_name |-> p.program_name,
            predicted_category |-> p.predicted_category ],
          [ kind |-> "INSERT INTO programs", id_category |-> p.predicted_category_id ],
          [ kind |-> "INSERT INTO program_translations", id_program |-> "@last_prog_id",
            name |-> escape_quotes(p.program_name), slug |-> p.slug ],
          [ kind |-> "SET @last_prog_id = LAST_INSERT_ID();" ],
          [ kind |-> "" ] >>

\* the lines of one decision without the test of predicted_category_id
program_unit_category_unchecked(p) ==
  IF p.action # "Insert"
  THEN << >>
  ELSE << [ kind |-> "-- New Program:", program_name |-> p.program_name,
            predicted_category |-> p.predicted_category ],
          [ kind |-> "INSERT INTO programs", id_category |-> p.predicted_category_id ],
          [ kind |-> "SET @last_prog_id = LAST_INSERT_ID();" ],
          [ kind |-> "INSERT INTO program_translations", id_program |-> "@last_prog_id",
            name |-> escape_quotes(p.program_name), slug |-> p.slug ],
          [ kind |-> "" ] >>

\* insert_programs.generate_sql_script, lines 171-192: the lines of one decision
program_unit(p) ==
  IF p.action # "Insert" \/ p.predicted_category_id = NoneInt
  THEN << >>
  ELSE << [ kind |-> "-- New Program:", program_name |-> p.program_name,
            predicted_category |-> p.predicted_category ],
          [ kind |-> "INSERT INTO programs", id_category |-> p.predicted_category_id ],
          SetLastProgId,
          [ kind |-> "INSERT INTO program_translations", id_program |-> "@last_prog_id",
            name |-> escape_quotes(p.program_name), slug |-> p.slug ],
          BlankLine >>

RECURSIVE program_units(_)
program_units(decisions) ==
  IF decisions = << >> THEN << >>
  ELSE program_unit(Head(decisions)) \o program_units(Tail(decisions))

generate_sql_script_programs(programs_to_insert) ==
  ScriptHeader \o program_units(programs_to_insert) \o << Commit >>

TranslationInserts(script) ==
  { k \in DOMAIN script : script[k].kind = "INSERT INTO program_translations" }

\* one more name of the candidate list
ReadProgram ==
  /\ mode = "programs" /\ pc = "read" /\ run = 1
  /\ Len(new_programs) < MaxPrograms
  /\ \E name \in CandidateNames : new_programs' = Append(new_programs, name)
  /\ UNCHANGED << callVars, mainVars, mode, pc, partVars, schedVars, program_translations, existing_programs,
                  all_report_data, sql_content >>

\* __main__, lines 209-210: get_existing_program_names raises
FetchProgramNamesFails ==
  /\ mode = "programs" /\ pc = "read"
  /\ fetch_calls' = Called({ "get_existing_program_names" })
  /\ pc' = "aborted"
  /\ UNCHANGED << callVars, mode, partVars, schedVars, progVars, all_report_data,
                  sql_content, dry_run, fsVars, fs_at_start >>

\* __main__, lines 209-217: the existing names are fetched, then
\* process_programs(NEW_PROGRAM_LIST, existing_programs_set, RULES, CATEGORY_IDS)
ProcessPrograms ==
  /\ mode = "programs" /\ pc = "read"
  /\ fetch_calls' = Called({ "get_existing_program_names" })
  /\ existing_programs' = get_existing_program_names(program_translations)
  /\ all_report_data' = process_programs(new_programs, existing_programs', RULES)
  /\ pc' = "processed"
  /\ UNCHANGED << callVars, mode, partVars, schedVars, program_translations, new_programs,
                  sql_content, dry_run, fsVars, fs_at_start >>

\* __main__, lines 219-222: the report of a dry run
DryRunReportPrograms ==
  /\ mode = "programs" /\ pc = "processed"
  /\ dry_run
  /\ pc' = "reported"
  /\ UNCHANGED << callVars, mainVars, mode, partVars, schedVars, progVars,
                  all_report_data, sql_content >>

\* __main__, lines 230-234
IsProgramToInsert(p) == p.action = "Insert" /\ p.predicted_category_id # NoneInt

programs_to_insert(decisions) == SelectSeq(decisions, IsProgramToInsert)

\* __main__, lines 223-239: no decision is to be inserted, no file is written
NoProgramsToInsert ==
  /\ mode = "programs" /\ pc = "processed"
  /\ ~dry_run
  /\ programs_to_insert(all_report_data) = << >>
  /\ output_dir' = TRUE
  /\ pc' = "finished"
  /\ UNCHANGED << callVars, mode, partVars, schedVars, progVars, all_report_data,
                  sql_content, dry_run, output_file, fs_at_start, fetch_calls >>

\* __main__, lines 223-248: the script of the decisions to insert is written
WriteProgramsSqlFile ==
  /\ mode = "programs" /\ pc = "processed"
  /\ ~dry_run
  /\ programs_to_insert(all_report_data) # << >>
  /\ output_dir' = TRUE
  /\ sql_content' = generate_sql_script_programs(programs_to_insert(all_report_data))
  /\ output_file' = sql_content'
  /\ pc' = "written"
  /\ UNCHANGED << callVars, mode, partVars, schedVars, progVars, all_report_data,
                  dry_run, fs_at_start, fetch_calls >>

\* generate_sql_script called on a decision list of any content (the claims about the
\* builder are about every decision list; __main__ calls it in WriteProgramsSqlFile)
GenerateSqlScriptPrograms ==
  /\ mode = "programs" /\ pc = "processed"
  /\ sql_content' = generate_sql_script_programs(all_report_data)
  /\ pc' = "done"
  /\ UNCHANGED << callVars, mainVars, mode, partVars, schedVars, progVars, all_report_data >>

\* The script of the first run is applied to the master data (one transaction), and
\* the entry point runs again on the same candidate list.
ApplyProgramScriptAndRerun ==
  /\ mode = "programs" /\ pc \in { "done", "written" } /\ run = 1
  /\ program_translations' = program_translations \cup
       { sql_literal_value(sql_content[k].name) : k \in TranslationInserts(sql_content) }
  /\ prev_report' = all_report_data
  /\ run' = 2
  /\ pc' = "read"
  /\ dry_run' \in BOOLEAN
  /\ fs_at_start' = << output_dir, output_file >>
  /\ fetch_calls' = NoFetch
  /\ UNCHANGED << callVars, fsVars, mode, participants_table, df, snapshotVars,
                  existing_participants, genVars, schedVars, new_programs, existing_programs,
                  all_report_data, sql_content >>

(***************************************************************************)
(* predict_category and the two parse_indonesian_date called on their own  *)
(***************************************************************************)
\* normalized (stripped, lower-case) program names
excel_untuk_bisnis == <<"e", "x", "c", "e", "l", " ", "u", "n", "t", "u", "k", " ", "b", "i", "s", "n", "i", "s">>
taxi_driver == <<"t", "a", "x", "i", " ", "d", "r", "i", "v", "e", "r">>
makeup_class == <<"m", "a", "k", "e", "u", "p", " ", "c", "l", "a", "s", "s">>
gen_z_tax_outlook == <<"g", "e", "n", "-", "z", " ", "t", "a", "x", " ", "o", "u", "t", "l", "o", "o", "k">>

NormalizedNames ==
  { training_cma, excel_untuk_bisnis, taxi_driver, makeup_class, gen_z_tax_outlook }

\* rule lists a caller supplies: the configured one, the same rules in the opposite
\* order, and a rule whose keyword is written in capitals
RECURSIVE Reverse(_)
Reverse(seq) == IF seq = << >> THEN << >> ELSE Append(Reverse(Tail(seq)), Head(seq))

RulesReversed == Reverse(RULES)

RulesInCapitals == << << "Accounting", << <<"C", "M", "A">>, <<"T", "A", "X">> >> >> >>

RuleLists == { RULES, RulesReversed, RulesInCapitals }

\* date texts
d31Desember2024_padded == <<" ", "3", "1", " ", "D", "e", "s", "e", "m", "b", "e", "r", " ", "2", "0", "2", "4", " ">>
d31DESEMBER2024 == <<"3", "1", " ", "D", "E", "S", "E", "M", "B", "E", "R", " ", "2", "0", "2", "4">>
d29Februari2023 == <<"2", "9", " ", "F", "e", "b", "r", "u", "a", "r", "i", " ", "2", "0", "2", "3">>
d29Februari2024 == <<"2", "9", " ", "F", "e", "b", "r", "u", "a", "r", "i", " ", "2", "0", "2", "4">>
dDesember2024 == <<"D", "e", "s", "e", "m", "b", "e", "r", " ", "2", "0", "2", "4">>
d1Mei2025 == <<"1", " ", "M", "e", "i", " ", "2", "0", "2", "5">>

DateTexts ==
  { d31Desember2024, d31December2024, d18January2025, d31Unknownmonth2024,
    d31Desember2024_padded, d31DESEMBER2024, d29Februari2023, d29Februari2024,
    dDesember2024, d1Mei2025, iso20241231, Empty }

CallPredictCategory ==
  /\ mode = "calls" /\ pc = "call"
  /\ \E name \in NormalizedNames, rules \in RuleLists :
       /\ call_args' = << name, rules >>
       /\ call_result' = predict_category(name, rules)
  /\ pc' = "predict_category returned"
  /\ UNCHANGED << mode, partVars, schedVars, progVars, all_report_data, sql_content,
                  call_again, mainVars >>

\* both functions of the name, of insert_participants and of insert_schedules
CallParseIndonesianDate ==
  /\ mode = "calls" /\ pc = "call"
  /\ \E date_str \in DateTexts :
       /\ call_args' = << date_str >>
       /\ call_result' = [ participants |-> parse_indonesian_date_participants(date_str),
                           schedules    |-> parse_indonesian_date_schedules(date_str) ]
  /\ pc' = "parse_indonesian_date returned"
  /\ UNCHANGED << mode, partVars, schedVars, progVars, all_report_data, sql_content,
                  call_again, mainVars >>

\* each function applied to the value it returned
CallParseIndonesianDateAgain ==
  /\ mode = "calls" /\ pc = "parse_indonesian_date returned"
  /\ call_again' = [ participants |->
                        parse_indonesian_date_participants(call_result.participants),
                     schedules    |->
                        parse_indonesian_date_schedules(call_result.schedules) ]
  /\ pc' = "parse_indonesian_date returned again"
  /\ UNCHANGED << mode, partVars, schedVars, progVars, all_report_data, sql_content,
                  call_args, call_result, mainVars >>

(***************************************************************************)
(* The three entry points                                                  *)
(***************************************************************************)
IdlePrograms ==
  /\ program_translations = { } /\ new_programs = << >> /\ existing_programs = { }

IdleSchedules ==
  /\ csv_file = << >> /\ csv_data = << >> /\ grouped_data = << >>
  /\ programs_data = << >> /\ existing_schedules = { }

IdleParticipants ==
  /\ participants_table = { } /\ existing_participants = { }
  /\ programs_map = << >> /\ schedules_map = << >>
  /\ df = << >>
  /\ i = 1 /\ sql_statements = << >> /\ report = << >>
  /\ processed_count = 0 /\ inserted_count = 0
  /\ skipped_count = 0 /\ not_found_count = 0

\* the flag and the file system a run starts with
InitMain ==
  /\ dry_run \in BOOLEAN
  /\ output_dir \in BOOLEAN
  /\ output_file = NoFile

InitParticipants ==
  /\ mode = "participants" /\ pc = "start"
  /\ InitMain
  /\ participants_table \in ParticipantsDataChoices
  /\ existing_participants = load_existing_participants(participants_table)
  /\ programs_map = ProgramsData
  /\ schedules_map \in SchedulesDataChoices
  /\ df = << >>
  /\ i = 1 /\ sql_statements = << >> /\ report = << >>
  /\ processed_count = 0 /\ inserted_count = 0
  /\ skipped_count = 0 /\ not_found_count = 0
  /\ IdleSchedules /\ IdlePrograms

InitSchedules ==
  /\ mode = "schedules" /\ pc = "start"
  /\ InitMain
  /\ csv_file = << >> /\ csv_data = << >> /\ grouped_data = << >>
  /\ programs_data = ProgramsData
  /\ existing_schedules \in ExistingSchedulesChoices
  /\ IdleParticipants /\ IdlePrograms

InitPrograms ==
  /\ mode = "programs" /\ pc = "read"
  /\ InitMain
  /\ program_translations \in ProgramTranslationsChoices
  /\ existing_programs = get_existing_program_names(program_translations)
  /\ new_programs = << >>
  /\ IdleParticipants /\ IdleSchedules

InitCalls ==
  /\ mode = "calls" /\ pc = "call"
  /\ dry_run = FALSE /\ output_dir = FALSE /\ output_file = NoFile
  /\ IdleParticipants /\ IdleSchedules /\ IdlePrograms

Init ==
  /\ run = 1 /\ prev_report = << >>
  /\ all_report_data = << >> /\ sql_content = << >>
  /\ call_args = << >> /\ call_result = << >> /\ call_again = << >>
  /\ fetch_calls = NoFetch
  /\ (InitParticipants \/ InitSchedules \/ InitPrograms \/ InitCalls)
  /\ fs_at_start = << output_dir, output_file >>

Next ==
  \/ MainParticipantsStart
  \/ ReadRow
  \/ ReadCsvFails
  \/ LoadMapsFails
  \/ GenerateSqlBegin
  \/ GenerateSqlRow
  \/ GenerateSqlEnd
  \/ DryRunSummary
  \/ WriteSqlFile
  \/ ApplyScriptAndRerun
  \/ FetchScheduleSnapshots
  \/ FetchScheduleSnapshotsFails
  \/ ProcessCsvFails
  \/ ProcessCsvRow
  \/ GroupCsvData
  \/ ProcessSchedules
  \/ DryRunReportSchedules
  \/ NoSchedulesToInsert
  \/ WriteSchedulesSqlFile
  \/ GenerateSqlScriptSchedules
  \/ ReadProgram
  \/ FetchProgramNamesFails
  \/ ProcessPrograms
  \/ DryRunReportPrograms
  \/ NoProgramsToInsert
  \/ WriteProgramsSqlFile
  \/ GenerateSqlScriptPrograms
  \/ ApplyProgramScriptAndRerun
  \/ CallPredictCategory
  \/ CallParseIndonesianDate
  \/ CallParseIndonesianDateAgain

Spec == Init /\ [][Next]_vars

(***************************************************************************)
(* Claims about insert_participants.generate_sql                           *)
(***************************************************************************)
\* the per-row records of a report: all but the summary record
RowRecords(rep) == { k \in DOMAIN rep : rep[k].status # "Complete" }

RecordsWithStatus(rep, status) == { k \in DOMAIN rep : rep[k].status = status }

\* the identity of the participant a statement inserts
InsertedKey(statement) ==
  << statement.id_schedule, Lower(sql_literal_value(statement.name)) >>

\* the schedule id a row resolves to, for a row whose program and schedule are found
ResolvedScheduleId(row) ==
  schedules_map[<< programs_map[Lower(program_name_of(row))].id, start_date_of(row) >>]

\* C1: a row the first run reported 'To Be Inserted', with schedule id S and trimmed
\* name N, is reported 'Skipped' by a re-run on the same rows and maps whose
\* existing-participants set contains (S, lower-cased N), and the re-run emits no
\* participant insert with that identity and no insert at all for the row.
C1_RerunSkipsInserted ==
  (mode = "participants" /\ run = 2 /\ pc \in { "loop", "done" }) =>
    /\ \A k \in 1..(i - 1) :
         ( /\ prev_report[k].status = "To Be Inserted"
           /\ << ResolvedScheduleId(df[k]), Lower(participant_name_of(df[k])) >>
                \in existing_participants )
         => /\ report[k].status = "Skipped"
            /\ report[k].action = "Participant already exists for this schedule"
            /\ \A n \in ParticipantInserts(sql_statements) :
                 InsertedKey(sql_statements[n])
                   # << ResolvedScheduleId(df[k]), Lower(participant_name_of(df[k])) >>
    /\ Cardinality(ParticipantInserts(sql_statements))
         = Cardinality(RecordsWithStatus(report, "To Be Inserted"))
    /\ Cardinality(CertificateInserts(sql_statements))
         = Cardinality(RecordsWithStatus(report, "To Be Inserted"))

\* C1 witness: a re-run has finished over a table with a row the first run inserted,
\* whose identity the fetched set now contains.
C1_Witness ==
  /\ mode = "participants" /\ run = 2 /\ pc = "done"
  /\ \E k \in 1..Len(df) :
       /\ prev_report[k].status = "To Be Inserted"
       /\ << ResolvedScheduleId(df[k]), Lower(participant_name_of(df[k])) >>
            \in existing_participants
       /\ participant_name_of(df[k]) # Lower(participant_name_of(df[k]))

\* C3: the script of one run holds no two participant inserts with the same
\* (schedule id, lower-cased name), and none whose identity is in the
\* existing-participants set.
C3_NoDuplicateEnrollment ==
  mode = "participants" =>
    /\ \A a, b \in ParticipantInserts(sql_statements) :
         a # b => InsertedKey(sql_statements[a]) # InsertedKey(sql_statements[b])
    /\ \A a \in ParticipantInserts(sql_statements) :
         InsertedKey(sql_statements[a]) \notin existing_participants

\* the outcome the precedence of C7 gives a row
C7_Expected(row) ==
  IF start_date_of(row) = None
  THEN << "Skipped", "Invalid schedule start date" >>
  ELSE IF Lower(program_name_of(row)) \notin DOMAIN programs_map
  THEN << "Not Found", "Program not found in master data" >>
  ELSE IF << programs_map[Lower(program_name_of(row))].id, start_date_of(row) >>
            \notin DOMAIN schedules_map
  THEN << "Not Found", "Schedule not found for this program and date" >>
  ELSE IF << ResolvedScheduleId(row), Lower(participant_name_of(row)) >>
            \in existing_participants
  THEN << "Skipped", "Participant already exists for this schedule" >>
  ELSE << "To Be Inserted", "Participant and Certificate records generated" >>

\* C7: every row gets its outcome by the precedence invalid start date, program not
\* found, schedule key absent from the schedule map, participant already exists,
\* to be inserted; a row whose key is in the schedule map is never reported as
\* schedule not found, whatever its certificate issue date.
C7_OutcomePrecedence ==
  (mode = "participants" /\ pc \in { "loop", "done" }) =>
    \A k \in 1..(i - 1) :
      << report[k].status, report[k].action >> = C7_Expected(df[k])

\* C8: one per-row record per processed row, and the counters agree with the records:
\* processed = inserted + skipped + not-found = number of per-row records, inserted =
\* number of 'To Be Inserted' records = number of participant inserts, skipped =
\* number of 'Skipped' records, not-found = number of 'Not Found' records.
C8_CountersAgree ==
  (mode = "participants" /\ pc \in { "loop", "done" }) =>
    /\ Cardinality(RowRecords(report)) = i - 1
    /\ pc = "done" => Cardinality(RowRecords(report)) = Len(df)
    /\ processed_count = Cardinality(RowRecords(report))
    /\ processed_count = inserted_count + skipped_count + not_found_count
    /\ inserted_count = Cardinality(RecordsWithStatus(report, "To Be Inserted"))
    /\ inserted_count = Cardinality(ParticipantInserts(sql_statements))
    /\ skipped_count = Cardinality(RecordsWithStatus(report, "Skipped"))
    /\ not_found_count = Cardinality(RecordsWithStatus(report, "Not Found"))

\* C8 witness: a finished run whose rows took all three kinds of outcome.
C8_Witness ==
  /\ mode = "participants" /\ pc = "done" /\ Len(df) = MaxRows
  /\ inserted_count > 0
  /\ skipped_count + not_found_count > 0

\* the certificate reference C9 gives two trimmed columns
C9_Expected(no_value, ket_value) ==
  IF no_value # << >> /\ ket_value # << >> THEN no_value \o ket_value
  ELSE IF no_value # << >> THEN no_value
  ELSE ket_value

\* C9: the certificate reference of a row is 'No' then 'ket' (trimmed) when both are
\* non-empty, otherwise whichever is non-empty, and empty when both are empty.
C9_CertificateRef ==
  (mode = "participants" /\ pc \in { "loop", "done" }) =>
    \A k \in 1..(i - 1) :
      report[k].certificate_ref
        = C9_Expected(Strip(Str(df[k].No)), Strip(Str(df[k].ket)))

(***************************************************************************)
(* Claims about insert_schedules                                           *)
(***************************************************************************)
SchedulesDecided == mode = "schedules" /\ pc \in { "processed", "done" }

NewDecisions(decisions) == { g \in DOMAIN decisions : decisions[g].action = "Insert" }

\* C4: the decisions never hold two 'New'/'Insert' decisions with the same (program
\* id, normalized start date), and no 'New' decision whose (program id, normalized
\* start date) is in the existing-schedules set.
C4_NoDuplicateNewSchedules ==
  SchedulesDecided =>
    /\ \A a, b \in NewDecisions(all_report_data) :
         a # b => << all_report_data[a].program_id, all_report_data[a].start_date >>
                    # << all_report_data[b].program_id, all_report_data[b].start_date >>
    /\ \A a \in NewDecisions(all_report_data) :
         << all_report_data[a].program_id, all_report_data[a].start_date >>
           \notin existing_schedules

\* the rows of data that are the first with their raw (program name, start date)
FirstOccurrences(data) ==
  { k \in DOMAIN data :
      \A j \in 1..(k - 1) : << data[j].program, data[j].start_date >>
                              # << data[k].program, data[k].start_date >> }

\* the g-th of a set of row numbers, in increasing order
NthOf(rows, g) == CHOOSE k \in rows : Cardinality({ j \in rows : j < k }) = g - 1

TextOf(date) == IF date = None THEN << >> ELSE date

\* C5: one decision per distinct raw (program name, start-date string) pair, in order
\* of first occurrence, with the end date of the first row carrying the pair.
C5_CollapsedByRawKey ==
  SchedulesDecided =>
    /\ Len(all_report_data) = Cardinality(FirstOccurrences(csv_data))
    /\ Len(all_report_data)
         = Cardinality({ << csv_data[k].program, csv_data[k].start_date >> :
                         k \in DOMAIN csv_data })
    /\ \A g \in DOMAIN all_report_data :
         LET first == csv_data[NthOf(FirstOccurrences(csv_data), g)]
         IN  /\ all_report_data[g].program_name = first.program
             /\ all_report_data[g].start_date
                  = TextOf(parse_indonesian_date_schedules(first.start_date))
             /\ all_report_data[g].end_date
                  = TextOf(parse_indonesian_date_schedules(first.end_date))

\* C5 witness: two rows with the same raw pair and end dates that normalize
\* differently have been collapsed into one decision.
C5_Witness ==
  /\ SchedulesDecided
  /\ Len(all_report_data) < Len(csv_data)
  /\ \E j, k \in DOMAIN csv_data :
       /\ j < k
       /\ csv_data[j].program = csv_data[k].program
       /\ csv_data[j].start_date = csv_data[k].start_date
       /\ parse_indonesian_date_schedules(csv_data[j].end_date)
            # parse_indonesian_date_schedules(csv_data[k].end_date)

\* C6: a group is 'Invalid Date'/Skip without program id when its start or end date
\* fails to normalize; otherwise 'Program Not Found'/Skip without program id when the
\* lower-cased name is no key of the program snapshot; otherwise 'Exists'/Skip when
\* (program id, start date) is an existing schedule; otherwise 'New'/Insert with the
\* snapshot's ids and both normalized dates.  Action is 'Insert' iff status is 'New'.
C6_DecisionOrder ==
  SchedulesDecided =>
    /\ Len(all_report_data) = Len(grouped_data)
    /\ \A g \in DOMAIN all_report_data :
         LET d     == all_report_data[g]
             name  == Lower(grouped_data[g][1][1])
             start == parse_indonesian_date_schedules(grouped_data[g][1][2])
             end   == parse_indonesian_date_schedules(grouped_data[g][2].end_date)
         IN  /\ (d.action = "Insert") <=> (d.status = "New")
             /\ d.status \in { "Invalid Date", "Program Not Found", "Exists", "New" }
             /\ (d.status = "Invalid Date") <=> (start = None \/ end = None)
             /\ (d.status = "Program Not Found")
                  <=> (start # None /\ end # None /\ name \notin DOMAIN programs_data)
             /\ d.status \in { "Invalid Date", "Program Not Found" }
                  => d.program_id = NoneInt /\ d.action = "Skip"
             /\ d.status \in { "Exists", "New" }
                  => /\ d.program_id = programs_data[name].id
                     /\ d.category_id = programs_data[name].cat_id
                     /\ d.start_date = start /\ d.end_date = end
                     /\ (d.status = "Exists")
                          <=> (<< programs_data[name].id, start >> \in existing_schedules)

\* C6 witness: decisions of a run that hold an existing and a new schedule.
C6_Witness ==
  /\ SchedulesDecided
  /\ \E g, h \in DOMAIN all_report_data :
       /\ all_report_data[g].status = "Exists"
       /\ all_report_data[h].status = "New"

(***************************************************************************)
(* Claims about insert_programs                                            *)
(***************************************************************************)
ProgramInserts(script) ==
  { k \in DOMAIN script : script[k].kind = "INSERT INTO programs" }

\* C2: once the script of one run has been applied and the existing names have been
\* fetched again, the script of a second run over the same candidate list holds no
\* program insert unit.
C2_SecondRunInsertsNothing ==
  (mode = "programs" /\ run = 2 /\ pc = "done") =>
    /\ ProgramInserts(sql_content) = { }
    /\ TranslationInserts(sql_content) = { }

(***************************************************************************)
(* Claims about the scripts of the three builders                          *)
(***************************************************************************)
ScriptBuilt == pc = "done"

IsComment(line) ==
  line.kind \in { "-- Generated by certificates-data-entry-tools", "-- Date:",
                  "-- Output target:", "-- New Schedule:", "-- New Program:" }

IsMutation(line) ==
  line.kind \in { "INSERT INTO participants", "INSERT INTO certificates",
                  "INSERT INTO schedules", "INSERT INTO programs",
                  "INSERT INTO program_translations",
                  "SET @last_part_id = LAST_INSERT_ID();",
                  "SET @last_prog_id = LAST_INSERT_ID();" }

LinesOf(script, line) == { k \in DOMAIN script : script[k] = line }

\* the decision list (the rows, for the participants builder) the script was built from
DecisionListEmpty ==
  IF mode = "participants" THEN df = << >> ELSE all_report_data = << >>

\* what C10 says of a script but its first line
C10_Bracketed(script) ==
  /\ script # << >>
  /\ script[Len(script)] = Commit
  /\ Cardinality(LinesOf(script, StartTransaction)) = 1
  /\ Cardinality(LinesOf(script, Commit)) = 1
  /\ \A k \in DOMAIN script :
       IsMutation(script[k])
         => \E a, b \in DOMAIN script :
              /\ a < k /\ k < b
              /\ script[a] = StartTransaction /\ script[b] = Commit
  /\ DecisionListEmpty => \A k \in DOMAIN script : ~IsMutation(script[k])

\* C10 as stated: the script of each builder begins with 'START TRANSACTION;' and
\* ends with 'COMMIT;', each occurs once, every mutation statement lies between
\* them, and an empty decision list gives no mutation.
C10_BeginsWithStartTransaction ==
  ScriptBuilt =>
    /\ C10_Bracketed(sql_content)
    /\ sql_content[1] = StartTransaction

\* C10 amended: the first line of the script that is no SQL comment is
\* 'START TRANSACTION;' (the programs and schedules builders write three header
\* comment lines before it), and the rest as stated.
C10_FirstStatementIsStartTransaction ==
  ScriptBuilt =>
    /\ C10_Bracketed(sql_content)
    /\ \E k \in DOMAIN sql_content :
         /\ sql_content[k] = StartTransaction
         /\ \A j \in 1..(k - 1) : IsComment(sql_content[j])
    /\ mode = "participants" => sql_content[1] = StartTransaction

\* C10 witness: a schedules script with an insert, and so with lines before the
\* transaction opens and statements inside it.
C10_Witness ==
  /\ ScriptBuilt /\ mode = "schedules"
  /\ \E k \in DOMAIN sql_content : sql_content[k].kind = "INSERT INTO schedules"

(***************************************************************************)
(* Claims about the units of a script                                      *)
(***************************************************************************)
IsInsert(line) ==
  line.kind \in { "INSERT INTO participants", "INSERT INTO certificates",
                  "INSERT INTO schedules", "INSERT INTO programs",
                  "INSERT INTO program_translations" }

\* the line whose generated identifier LAST_INSERT_ID() returns just before line k
\* (0 when no insert precedes it)
LastInsertBefore(script, k) ==
  LET before == { j \in 1..(k - 1) : IsInsert(script[j]) }
  IN  IF before = { } THEN 0 ELSE CHOOSE j \in before : \A h \in before : h <= j

\* the insert whose identifier the variable set by `capture` holds at line k
ReferencedInsert(script, k, capture) ==
  LET sets == { j \in 1..(k - 1) : script[j] = capture }
  IN  IF sets = { } THEN 0
      ELSE LastInsertBefore(script, CHOOSE j \in sets : \A h \in sets : h <= j)

\* every child insert follows its parent insert with only the capture between them
\* and references the parent's identifier; every parent insert has its child
Chained(script, parent_kind, capture, child_kind) ==
  /\ \A k \in DOMAIN script :
       script[k].kind = child_kind =>
         /\ k > 2
         /\ script[k - 1] = capture
         /\ script[k - 2].kind = parent_kind
         /\ ReferencedInsert(script, k, capture) = k - 2
  /\ \A k \in DOMAIN script :
       script[k].kind = parent_kind =>
         k + 2 <= Len(script) /\ script[k + 2].kind = child_kind

\* the decisions of the program list that generate_sql_script turns into a unit
InsertEligiblePrograms(decisions) ==
  { k \in DOMAIN decisions :
      decisions[k].action = "Insert" /\ decisions[k].predicted_category_id # NoneInt }

\* the units of the participants script, in the order of the rows they come from
ParticipantUnitsInRowOrder ==
  LET ins  == ParticipantInserts(sql_statements)
      recs == RecordsWithStatus(report, "To Be Inserted")
  IN  /\ Cardinality(ins) = Cardinality(recs)
      /\ \A n \in 1..Cardinality(ins) :
           LET k == NthOf(ins, n)
               r == report[NthOf(recs, n)]
           IN  /\ sql_statements[k].name = escape_quotes(r.participant_name)
               /\ sql_statements[k + 2].reference_number = escape_quotes(r.certificate_ref)

\* the units of the programs script, in the order of the decisions they come from
ProgramUnitsInDecisionOrder ==
  LET ins  == TranslationInserts(sql_content)
      decs == InsertEligiblePrograms(all_report_data)
  IN  /\ Cardinality(ins) = Cardinality(decs)
      /\ \A n \in 1..Cardinality(ins) :
           sql_content[NthOf(ins, n)].name
             = escape_quotes(all_report_data[NthOf(decs, n)].program_name)

\* C11: in every emitted script each certificate insert (resp. program translation
\* insert) directly follows the capture of the identifier generated by the participant
\* insert (resp. program insert) of its own unit, so the variable it references holds
\* that identifier, and the units come in the order of the rows (resp. decisions).
C11_ParentChildChaining ==
  /\ (mode = "participants" /\ pc \in { "loop", "done" }) =>
       /\ Chained(sql_statements, "INSERT INTO participants", SetLastPartId,
                  "INSERT INTO certificates")
       /\ ParticipantUnitsInRowOrder
  /\ (mode = "programs" /\ pc = "done") =>
       /\ Chained(sql_content, "INSERT INTO programs", SetLastProgId,
                  "INSERT INTO program_translations")
       /\ ProgramUnitsInDecisionOrder

\* C11 witness: a programs script of two units, the second child insert coming after
\* the identifier of the first unit was captured.
C11_Witness ==
  /\ mode = "programs" /\ pc = "done"
  /\ Cardinality(TranslationInserts(sql_content)) = 2

(***************************************************************************)
(* Claims about which decisions become mutations                           *)
(***************************************************************************)
ScheduleInserts(script) ==
  { k \in DOMAIN script : script[k].kind = "INSERT INTO schedules" }

InsertDecisions(decisions) == { k \in DOMAIN decisions : decisions[k].action = "Insert" }

\* the programs script holds one unit per insert-eligible decision, and no other
ProgramUnitsAreEligibleDecisions ==
  LET ins  == ProgramInserts(sql_content)
      decs == InsertEligiblePrograms(all_report_data)
  IN  /\ Cardinality(ins) = Cardinality(decs)
      /\ Cardinality(TranslationInserts(sql_content)) = Cardinality(decs)
      /\ \A n \in 1..Cardinality(ins) :
           LET k == NthOf(ins, n)
               d == all_report_data[NthOf(decs, n)]
           IN  /\ sql_content[k].id_category = d.predicted_category_id
               /\ sql_content[k + 2].name = escape_quotes(d.program_name)

\* the schedules script holds one insert per decision whose action is 'Insert'
ScheduleUnitsAreInsertDecisions ==
  LET ins  == ScheduleInserts(sql_content)
      decs == InsertDecisions(all_report_data)
  IN  /\ Cardinality(ins) = Cardinality(decs)
      /\ \A n \in 1..Cardinality(ins) :
           LET k == NthOf(ins, n)
               d == all_report_data[NthOf(decs, n)]
           IN  /\ sql_content[k].id_program = d.program_id
               /\ sql_content[k].date_start = QUOTE \o d.start_date \o QUOTE

\* the participants script holds one unit per row reported 'To Be Inserted'
ParticipantUnitsAreInsertedRows ==
  /\ ParticipantUnitsInRowOrder
  /\ Cardinality(CertificateInserts(sql_statements))
       = Cardinality(RecordsWithStatus(report, "To Be Inserted"))

\* C12: a script holds a unit for a decision exactly when the decision is actionable:
\* action 'Insert' with a resolved category id (programs), action 'Insert'
\* (schedules), status 'To Be Inserted' (participants); the number of units is the
\* number of such decisions.
C12_OnlyActionableDecisions ==
  /\ (mode = "programs" /\ pc = "done") => ProgramUnitsAreEligibleDecisions
  /\ (mode = "schedules" /\ pc = "done") => ScheduleUnitsAreInsertDecisions
  /\ (mode = "participants" /\ pc \in { "loop", "done" }) => ParticipantUnitsAreInsertedRows

\* C12 witness: a programs script built from a 'New' decision predicted
\* 'Uncategorized' and an insert-eligible one.
C12_Witness ==
  /\ mode = "programs" /\ pc = "done"
  /\ \E k \in DOMAIN all_report_data :
       /\ all_report_data[k].status = "New"
       /\ all_report_data[k].predicted_category = "Uncategorized"
  /\ InsertEligiblePrograms(all_report_data) # { }

(***************************************************************************)
(* Claims about insert_programs.process_programs                           *)
(***************************************************************************)
ProgramsDecided == mode = "programs" /\ pc \in { "processed", "done" }

\* C13: process_programs gives one decision per candidate, in candidate order; a
\* candidate whose trimmed, lower-cased name is in the existing names is 'Exists'/Skip
\* with no predicted category, any other is 'New'/Insert with the category the rules
\* predict; a second run on an unchanged snapshot gives the same decision list.
C13_ProgramDecisions ==
  /\ ProgramsDecided =>
       /\ Len(all_report_data) = Len(new_programs)
       /\ \A k \in DOMAIN new_programs :
            LET d          == all_report_data[k]
                normalized == Lower(Strip(new_programs[k]))
                predicted  == predict_category(normalized, RULES)
            IN  /\ d.program_name = new_programs[k]
                /\ IF normalized \in existing_programs
                   THEN /\ d.status = "Exists" /\ d.action = "Skip"
                        /\ d.predicted_category = "N/A"
                        /\ d.predicted_category_id = NoneInt
                   ELSE /\ d.status = "New" /\ d.action = "Insert"
                        /\ d.predicted_category = predicted[1]
                        /\ d.predicted_category_id = predicted[2]
  /\ (ProgramsDecided /\ run = 2
        /\ existing_programs = get_existing_program_names(program_translations)
        /\ TranslationInserts(sql_content) = { } /\ pc = "processed")
       => all_report_data = prev_report

\* C13 witness: the scenario of the specification, a name that exists in another
\* letter case and with blanks around it, followed by a new name.
C13_Witness ==
  /\ ProgramsDecided
  /\ Len(all_report_data) = 2
  /\ new_programs[1] = training_cma_padded
  /\ all_report_data[1].status = "Exists"
  /\ all_report_data[2].status = "New"

\* a second run of process_programs whose snapshot the first run left unchanged
C13_WitnessRerun ==
  /\ ProgramsDecided /\ run = 2 /\ pc = "processed"
  /\ TranslationInserts(sql_content) = { }
  /\ all_report_data # << >>

(***************************************************************************)
(* Claims about insert_programs.predict_category                           *)
(***************************************************************************)
\* a keyword occurs in a name as a whole word, whatever the letter case of either
C14_KeywordInName(keyword, name) == word_search(Lower(keyword), Lower(name))

C14_CategoryMatches(rule, name) ==
  \E w \in DOMAIN rule[2] : C14_KeywordInName(rule[2][w], name)

\* the first category in rule order one of whose keywords occurs in the name
C14_Expected(name, rules) ==
  IF \E r \in DOMAIN rules : C14_CategoryMatches(rules[r], name)
  THEN LET r == CHOOSE q \in DOMAIN rules :
                  /\ C14_CategoryMatches(rules[q], name)
                  /\ \A h \in 1..(q - 1) : ~C14_CategoryMatches(rules[h], name)
       IN  << rules[r][1], CATEGORY_IDS[rules[r][1]] >>
  ELSE << "Uncategorized", NoneInt >>

\* C14: predict_category returns the first category in rule order that has a keyword
\* occurring in the name as a whole word, case-insensitively, with the id of that
\* category, and ('Uncategorized', no id) when no category has one.
C14_FirstMatchingRuleWins ==
  (mode = "calls" /\ pc = "predict_category returned") =>
    call_result = C14_Expected(call_args[1], call_args[2])

\* the same for the rule lists whose keywords are written in lower case
C14_FirstMatchingLowerCaseRuleWins ==
  (mode = "calls" /\ pc = "predict_category returned" /\ call_args[2] # RulesInCapitals) =>
    call_result = C14_Expected(call_args[1], call_args[2])

\* a name two categories match, classified under both rule orders
C14_WitnessRuleOrder ==
  /\ mode = "calls" /\ pc = "predict_category returned"
  /\ call_args = << excel_untuk_bisnis, RulesReversed >>
  /\ call_result = << "Management", 4 >>

(***************************************************************************)
(* Claims about parse_indonesian_date                                      *)
(***************************************************************************)
\* the number of the month a lower-case token names, in the Indonesian table or as
\* an English month name; 0 when it names none
C15_MonthOf(token) ==
  IF IndonesianMonth(token) # None THEN MonthNumber(IndonesianMonth(token))
  ELSE IF token \in MonthNameSet THEN MonthNumber(token)
  ELSE 0

\* day, month and year form a date of the calendar
C15_RealDate(day, month, year) ==
  /\ MatchesDay(day) /\ MatchesYear(year)
  /\ NumValue(year) >= 1
  /\ NumValue(day) <= DaysInMonth(NumValue(year), month)

\* what C15 says the normalizer returns for a text
C15_Expected(text) ==
  LET tokens == Split(Lower(Strip(text)))
  IN  IF Len(tokens) # 3 THEN None
      ELSE IF C15_MonthOf(tokens[2]) = 0 THEN None
      ELSE IF ~C15_RealDate(tokens[1], C15_MonthOf(tokens[2]), tokens[3]) THEN None
      ELSE Pad(NumValue(tokens[3]), 4) \o << "-" >> \o Pad(C15_MonthOf(tokens[2]), 2)
             \o << "-" >> \o Pad(NumValue(tokens[1]), 2)

DateReturned == mode = "calls" /\ pc = "parse_indonesian_date returned"

\* C15: the date normalizer strips and lower-cases its input and returns None exactly
\* when the text has not three tokens, its month token is in neither month table, or
\* day, month and year are no date of the calendar; otherwise it returns the date as
\* YYYY-MM-DD. Stated of both functions of the name.
C15_NormalizerResult ==
  DateReturned =>
    /\ call_result.participants = C15_Expected(call_args[1])
    /\ call_result.schedules = C15_Expected(call_args[1])

\* the same, of the function of insert_participants alone
C15_ParticipantsNormalizerResult ==
  DateReturned => call_result.participants = C15_Expected(call_args[1])

\* the same, of the function of insert_schedules on the texts without blanks around
C15_SchedulesNormalizerResultOnStrippedText ==
  (DateReturned /\ Strip(call_args[1]) = call_args[1]) =>
    call_result.schedules = C15_Expected(call_args[1])

\* C16: normalizing the result of a successful normalization yields that same
\* canonical string again.
C16_StableUnderRepetition ==
  (mode = "calls" /\ pc = "parse_indonesian_date returned again") =>
    /\ call_result.participants # None => call_again.participants = call_result.participants
    /\ call_result.schedules # None => call_again.schedules = call_result.schedules

\* ---------------------------------------------------------------------------
\* Dry runs, failures of the collaborators, and the script file
\* ---------------------------------------------------------------------------

EntryPoints == { "participants", "schedules", "programs" }

\* the script file as the run found it
FileAtStart == fs_at_start[2]

\* C17: in each of the three entry points a run started with --dry-run leaves the file
\* system as it found it, from start to finish: no output directory is created and
\* no script file is written.
C17_DryRunLeavesFileSystemUnchanged ==
  (mode \in EntryPoints /\ dry_run) => fsVars = fs_at_start

\* what does hold of a dry run: the script file is never written, and the schedules
\* and programs entry points do not touch the directory either
C17_DryRunWritesNoScriptFile ==
  (mode \in EntryPoints /\ dry_run) => output_file = FileAtStart

C17_DryRunOfSchedulesAndProgramsLeavesFileSystemUnchanged ==
  (mode \in { "schedules", "programs" } /\ dry_run) => fsVars = fs_at_start

\* the fetches one completed run of the entry point makes
FetchesOf(entry) ==
  CASE entry = "participants" -> Range(ParticipantFetches)
    [] entry = "schedules"    -> { "get_programs_data", "get_existing_schedules" }
    [] entry = "programs"     -> { "get_existing_program_names" }
    [] OTHER                  -> { }

AllFetched == \A f \in Fetches : fetch_calls[f] = (IF f \in FetchesOf(mode) THEN 1 ELSE 0)

\* C18: in every entry point each fetch is called at most once per run; a run that
\* ends on an unreadable source or a failed fetch has not written or modified the
\* script file; and the script file is written only after the source was read and
\* every fetch of the entry point was made.
C18_FailureLeavesNoPartialOutput ==
  /\ \A f \in Fetches : fetch_calls[f] <= 1
  /\ pc = "aborted" => output_file = FileAtStart
  /\ output_file # FileAtStart => (pc = "written" /\ AllFetched)

\* a fetch fails in the run that follows a run that wrote the script file
C18_Witness ==
  /\ pc = "aborted" /\ run = 2
  /\ output_file # NoFile
  /\ \E f \in Fetches : fetch_calls[f] = 1

\* the script of the run: the decisions to insert between the two transaction markers
ScriptOfRun ==
  CASE mode = "participants" -> sql_content
    [] mode = "schedules" -> generate_sql_script_schedules(schedules_to_insert(all_report_data))
    [] mode = "programs"  -> generate_sql_script_programs(programs_to_insert(all_report_data))
    [] OTHER -> NoFile

\* a run without --dry-run whose reads and fetches succeeded has ended
CompletedRun == mode \in EntryPoints /\ ~dry_run /\ pc \in { "written", "finished" }

\* C19: every run without --dry-run whose source read and fetches succeed ends with the
\* script file holding the script of that run, also when no decision is to be
\* inserted; the file never holds the script of an earlier run after a completed run.
C19_CompletedRunWritesItsScript ==
  CompletedRun => output_file = ScriptOfRun

\* what does hold: a run that has a decision to insert writes its script
C19_RunWithInsertsWritesItsScript ==
  (mode \in EntryPoints /\ pc = "written") => output_file = ScriptOfRun

\* the participants entry point writes its script whatever the decisions
C19_ParticipantsRunWritesItsScript ==
  (mode = "participants" /\ ~dry_run /\ pc \in { "written", "finished" })
    => output_file = ScriptOfRun

\* a completed second run has left the script of the first run in the file
C19_StaleScript ==
  CompletedRun /\ run = 2 /\ output_file # NoFile /\ output_file # ScriptOfRun

\* ---------------------------------------------------------------------------
\* Malformed rows
\* ---------------------------------------------------------------------------

\* the raw (program, start date) key of a row of the CSV file
RawKey(row) == << Strip(row.Program), Strip(row.Tanggal_Mulai) >>

MissingField(row) ==
  \/ Falsy(Strip(row.Program))
  \/ Falsy(Strip(row.Tanggal_Mulai))
  \/ Falsy(Strip(row.Tanggal_Sertifikat))

UnparseableDate(row) ==
  \/ Falsy(parse_indonesian_date_schedules(Strip(row.Tanggal_Mulai)))
  \/ Falsy(parse_indonesian_date_schedules(Strip(row.Tanggal_Sertifikat)))

\* the decision list is complete: one decision per group, in the order of the groups
DecisionsMade ==
  mode = "schedules" /\ pc \in { "processed", "reported", "finished", "written" }

\* the decisions that cover the raw key of the row
Covering(row) ==
  { g \in DOMAIN grouped_data : g \in DOMAIN all_report_data /\ grouped_data[g][1] = RawKey(row) }

MarkedInvalid(decision) == decision.action = "Skip" /\ decision.status = "Invalid Date"

\* the report of the participants pipeline has one record per row, in row order,
\* and a row without a readable start date is recorded as Skipped
ParticipantRowsRecorded ==
  (mode = "participants" /\ pc = "done") =>
    /\ Len(report) = Len(df) + 1
    /\ \A k \in DOMAIN df :
         /\ report[k].participant_name = participant_name_of(df[k])
         /\ report[k].program_name = program_name_of(df[k])
         /\ Falsy(start_date_of(df[k])) =>
              (report[k].status = "Skipped" /\ report[k].action = "Invalid schedule start date")

\* C20: a source row with an unparseable date or a missing required field (program
\* name, start date, end date) is marked Invalid/Skipped in the decision list of the
\* schedules pipeline (in the report of the participants pipeline), the rows after it
\* are still processed, and every source row has a decision covering its raw
\* (program, start date) key.
C20_MalformedRowsAreRecorded ==
  /\ ParticipantRowsRecorded
  /\ DecisionsMade =>
       \A k \in DOMAIN csv_file :
          /\ Covering(csv_file[k]) # { }
          /\ (MissingField(csv_file[k]) \/ UnparseableDate(csv_file[k])) =>
               \A g \in Covering(csv_file[k]) : MarkedInvalid(all_report_data[g])

\* what does hold of the schedules pipeline: a row with its three fields has a
\* decision covering its raw key, and when it is the first row of its key and one of
\* its dates is unparseable that decision is Invalid Date / Skip
C20_CompleteRowsAreCovered ==
  DecisionsMade =>
    \A k \in DOMAIN csv_file :
       ~MissingField(csv_file[k]) =>
         /\ Cardinality(Covering(csv_file[k])) = 1
         /\ ( /\ UnparseableDate(csv_file[k])
              /\ \A j \in 1..(k - 1) :
                    MissingField(csv_file[j]) \/ RawKey(csv_file[j]) # RawKey(csv_file[k]) )
              => \A g \in Covering(csv_file[k]) : MarkedInvalid(all_report_data[g])

\* a row with a missing start date is followed by a complete row: the complete row
\* has its decision, the row with the missing field has none
C20_RowDropped ==
  /\ DecisionsMade /\ Len(csv_file) = 2
  /\ MissingField(csv_file[1]) /\ Covering(csv_file[1]) = { }
  /\ ~MissingField(csv_file[2]) /\ Covering(csv_file[2]) # { }

\* ---------------------------------------------------------------------------
\* Free text in the quoted literals of the insert statements
\* ---------------------------------------------------------------------------

QuoteCount(text) == Cardinality({ k \in DOMAIN text : text[k] = QUOTE[1] })

\* the quoted literal as the builder writes it: '{escaped}'
QuotedLiteral(escaped) == QUOTE \o escaped \o QUOTE

\* A reader of the statement under the quote-doubling rule: from position k inside a
\* literal, the position of the quote that closes it (0 when the text ends first).
\* Two quotes in a row are one quote of the value.
RECURSIVE ClosingQuoteFrom(_, _)
ClosingQuoteFrom(text, k) ==
  IF k > Len(text) THEN 0
  ELSE IF text[k] # QUOTE[1] THEN ClosingQuoteFrom(text, k + 1)
  ELSE IF k < Len(text) /\ text[k + 1] = QUOTE[1] THEN ClosingQuoteFrom(text, k + 2)
  ELSE k

\* the value the reader gets between the opening quote and position `last`
RECURSIVE ValueRead(_, _, _)
ValueRead(text, k, last) ==
  IF k >= last THEN << >>
  ELSE IF text[k] = QUOTE[1] THEN QUOTE \o ValueRead(text, k + 2, last)
  ELSE << text[k] >> \o ValueRead(text, k + 1, last)

\* every quote of the value is doubled in the literal, the literal is closed by the
\* builder's own closing quote, and the reader gets the value back
EscapedInLiteral(value, escaped) ==
  LET literal == QuotedLiteral(escaped)
  IN  /\ QuoteCount(escaped) = 2 * QuoteCount(value)
      /\ ClosingQuoteFrom(literal, 2) = Len(literal)
      /\ ValueRead(literal, 2, Len(literal)) = value

ParticipantValuesEscaped ==
  mode = "participants" =>
    LET ins  == ParticipantInserts(sql_statements)
        recs == RecordsWithStatus(report, "To Be Inserted")
    IN  /\ Cardinality(ins) = Cardinality(recs)
        /\ \A n \in 1..Cardinality(ins) :
             LET k == NthOf(ins, n)
                 r == report[NthOf(recs, n)]
             IN  /\ EscapedInLiteral(r.participant_name, sql_statements[k].name)
                 /\ EscapedInLiteral(r.certificate_ref, sql_statements[k + 2].reference_number)
                 /\ EscapedInLiteral(r.program_name, sql_statements[k + 2].nama_program)

ProgramNamesEscaped ==
  (mode = "programs" /\ pc \in { "done", "written" }) =>
    LET ins  == TranslationInserts(sql_content)
        decs == InsertEligiblePrograms(all_report_data)
    IN  /\ Cardinality(ins) = Cardinality(decs)
        /\ \A n \in 1..Cardinality(ins) :
             EscapedInLiteral(all_report_data[NthOf(decs, n)].program_name,
                              sql_content[NthOf(ins, n)].name)

\* C21: for any participant name, program name and certificate reference of the
\* participants script, and any program name of the programs script, every single
\* quote of the value appears doubled inside the quoted literal of the emitted insert
\* statement, and the literal is closed only by the builder's own closing quote.
C21_FreeTextIsEscaped ==
  /\ ParticipantValuesEscaped
  /\ ProgramNamesEscaped

\* a participant is inserted whose name, certificate reference and program name each
\* hold a single quote, the reference at its two ends
C21_Witness ==
  /\ mode = "participants" /\ pc = "done"
  /\ \E k \in ParticipantInserts(sql_statements) :
       /\ QuoteCount(sql_statements[k].name) = 2
       /\ QuoteCount(sql_statements[k + 2].reference_number) = 4
       /\ QuoteCount(sql_statements[k + 2].nama_program) = 2

\* a program whose name holds a single quote is inserted by the programs script
C21_WitnessPrograms ==
  /\ mode = "programs" /\ pc = "written"
  /\ \E k \in TranslationInserts(sql_content) : QuoteCount(sql_content[k].name) = 2

\* ---------------------------------------------------------------------------
\* The two functions named parse_indonesian_date
\* ---------------------------------------------------------------------------

\* C22: parse_indonesian_date of insert_schedules and parse_indonesian_date of
\* insert_participants agree on every input string, blanks around the text, mixed
\* letter case, Indonesian or English month names and malformed texts included: both
\* return the same canonical date or both return None.
C22_NormalizersAgree ==
  DateReturned => call_result.participants = call_result.schedules

\* what does hold: the two agree on every text without blanks around it
C22_NormalizersAgreeOnStrippedText ==
  (DateReturned /\ Strip(call_args[1]) = call_args[1]) =>
    call_result.participants = call_result.schedules

\* and on the text as the schedules pipeline passes it on, stripped by process_csv_data
C22_PipelinesAgree ==
  DateReturned =>
    call_result.participants = parse_indonesian_date_schedules(Strip(call_args[1]))

\* the text with blanks around it is a date for one function and None for the other
C22_PaddedTextDisagrees ==
  /\ DateReturned
  /\ call_args[1] = d31Desember2024_padded
  /\ call_result.participants = iso20241231
  /\ call_result.schedules = None

====
